---- MODULE Spec2Model ----
(***************************************************************************)
(* Model of the sybilla analysis pipeline: the orchestrator               *)
(* AnalysisScheduler.run_analysis (src/app/scheduler.py), the triggers     *)
(* that start it (src/app/main.py, the scheduler thread), the risk         *)
(* assessor's reply parsing (src/app/services/nvidia_nim_client.py) and    *)
(* the rule-based command generation.                                      *)
(*                                                                         *)
(* Python dicts are functions whose DOMAIN is the set of keys present, so  *)
(* that "key in d" and d.get(key, default) keep their meaning.             *)
(***************************************************************************)
EXTENDS Integers, Sequences, FiniteSets, TLC

\* ------------------------------------------------------------------ bounds
MaxRuns == 2        \* run_analysis invocations followed in one behaviour
MaxIp == 3          \* addresses 1..MaxIp, ordered as sorted() orders them
MaxViolators == 2   \* length of the ssh_outside_budapest list
MaxAddr == 2        \* addresses 1..MaxAddr seen in the backend's log lines
MaxLogs == 2        \* log lines a backend query returns
MaxLines == 3       \* lines a backend process writes to its output
MaxRequests == 4    \* requests one MCPClient sends in one behaviour
MaxThreads == 2     \* scheduler threads started in one behaviour
MaxItems == 4       \* values counted into one distribution
MaxTop == 2         \* the N of a top-N truncation

Runs == 1..MaxRuns
Ips == 1..MaxIp

VARIABLES
    is_running,            \* AnalysisScheduler.is_running
    jobs,                  \* jobs registered with the schedule module
    sched_run,             \* run executed by the scheduler thread, 0 if none
    sched_job,             \* job the scheduler thread is executing
    response,              \* last HTTP response of trigger_analysis
    started,               \* number of run_analysis invocations so far
    pc,                    \* position of each run_analysis invocation
    connections,           \* run_analysis local: connections
    analysis_data,         \* run_analysis local: analysis_data
    nim_analysis,          \* run_analysis local: nim_analysis
    report_path,           \* run_analysis local: report_path
    upload_success,        \* run_analysis local: upload_success
    init_outcome,          \* what the backend did with each run's initialize
    calls,                 \* external calls each run has performed
    returned,              \* value run_analysis returned to its caller
    last_returned,         \* run whose run_analysis returned most recently
    last_analysis_result,  \* AnalysisScheduler.last_analysis_result
    cmd_in,                \* snapshot given to _generate_security_commands
    cmd_out,               \* the dict it returned
    assess_in,             \* a snapshot and two behaviours of the model
    assess_out,            \* the assessment Step 4 builds under each
    agg_in,                \* the backend's log lines and the failed queries
    agg_out,               \* the snapshot prepare_comprehensive_analysis built
    scan_in,               \* exit code and output lines of a backend process
    scan_out,              \* the dict _call_server_simple returned for them
    request_id,            \* MCPClient.request_id
    assigned_ids,          \* the ids given to the requests sent, in order
    client_call,           \* the last client method called and its return
    call_index,            \* position of one run in the calls it makes, 0 before it
    in_flight,             \* the blocking call that run is waiting in, if any
    trace,                 \* the requests that run has sent, in order
    stages,                \* the stages that run has begun, in order
    last_response,         \* what the last call of that run gave back
    blocked_for,           \* seconds that run spent in calls that timed out
    run_status,            \* how that run ended
    threads,               \* the scheduler threads started, each at its position
    status_call,           \* a get_scheduler_status call waiting in its await
    initial_runs,          \* executions of the 'initial' job begun since the last start
    fn_in,                 \* the arguments a function is applied to on its own
    fn_out,                \* what it returned
    callers                \* the threads inside _call_server_simple, each at its position

vars == <<is_running, jobs, sched_run, sched_job, response, started, pc,
          connections, analysis_data, nim_analysis, report_path,
          upload_success, init_outcome, calls, returned, last_returned,
          last_analysis_result, cmd_in, cmd_out, assess_in, assess_out,
          agg_in, agg_out, scan_in, scan_out, request_id, assigned_ids, client_call,
          call_index, in_flight, trace, stages, last_response, blocked_for, run_status,
          threads, status_call, initial_runs, fn_in, fn_out, callers>>

sched_vars == <<is_running, jobs, sched_run, sched_job>>
local_vars == <<connections, analysis_data, nim_analysis, report_path, upload_success>>
agg_vars == <<agg_in, agg_out>>
scan_vars == <<scan_in, scan_out>>
client_vars == <<request_id, assigned_ids, client_call>>
flow_vars == <<call_index, in_flight, trace, stages, last_response, blocked_for, run_status>>
loop_vars == <<threads, status_call, initial_runs>>
fn_vars == <<fn_in, fn_out>>
cmd_vars == <<cmd_in, cmd_out, assess_in, assess_out, agg_vars, scan_vars, client_vars, flow_vars,
              loop_vars, fn_vars, callers>>
run_vars == <<is_running, jobs, sched_run, sched_job, response, started, pc,
              connections, analysis_data, nim_analysis, report_path,
              upload_success, init_outcome, calls, returned, last_returned,
              last_analysis_result>>

\* ------------------------------------------------------------ dict helpers
None == [none |-> TRUE]

EmptyDict == [k \in {} |-> TRUE]

\* d.get(k, default)
Get(d, k, default) == IF k \in DOMAIN d THEN d[k] ELSE default

\* d[k] = v
DictSet(d, k, v) == [x \in DOMAIN d \cup {k} |-> IF x = k THEN v ELSE d[x]]

\* bool(x) for a str and for a list
NonEmptyText(s) == s # ""

NonEmptyList(l) == Len(l) > 0

RECURSIVE SortedList(_)
\* sorted(list(s)) for a set of addresses
SortedList(s) ==
    IF s = {} THEN <<>>
    ELSE LET m == CHOOSE x \in s : \A y \in s : x <= y
         IN <<m>> \o SortedList(s \ {m})

Range(l) == {l[i] : i \in DOMAIN l}

\* -------------------------------------------- _generate_security_commands
BlockText == "iptables -A INPUT -s {ip} -j DROP"

BlockCommand(ip) == [text |-> BlockText, ip |-> ip]

\* a command that names no address
PlainCommand(t) == [text |-> t, ip |-> 0]

\* threat_indicators.get("ssh_outside_budapest", []) and
\* threat_indicators.get("multiple_sensors", {}) of a snapshot
ThreatIndicators(data) ==
    LET ip_analytics == Get(Get(data, "current_period", EmptyDict), "ip_analytics", EmptyDict)
        threat_indicators == Get(ip_analytics, "threat_indicators", EmptyDict)
    IN [ssh_violators |-> Get(threat_indicators, "ssh_outside_budapest", <<>>),
        multi_sensor_violators |-> Get(threat_indicators, "multiple_sensors", {})]

\* the flagged addresses without the set(): an address in both indicators
\* is listed twice
SuspiciousIps_concat(data) ==
    LET t == ThreatIndicators(data)
    IN t.ssh_violators \o SortedList(t.multi_sensor_violators)

\* the addresses flagged in a snapshot, sorted
SuspiciousIps(data) ==
    LET t == ThreatIndicators(data)
    IN SortedList(Range(t.ssh_violators) \cup t.multi_sensor_violators)

_generate_security_commands(data) ==
    LET t == ThreatIndicators(data)
        suspicious_ips == SuspiciousIps(data)
        n == Len(suspicious_ips)
        commands ==
            IF n > 0
            THEN [i \in 1..n |-> BlockCommand(suspicious_ips[i])]
                 \o <<PlainCommand("iptables -L INPUT -n | grep DROP"),
                      PlainCommand("iptables-save > /etc/iptables/rules.v4")>>
            ELSE <<PlainCommand("iptables -L INPUT -n")>>
    IN [executive_summary |->
            IF n > 0 THEN "SECURITY ALERT: malicious IPs detected. Immediate blocking required."
            ELSE "No immediate security threats detected. System appears secure.",
        risk_level |-> IF n > 0 THEN "High" ELSE "Low",
        key_findings |->
            IF n > 0
            THEN <<IF Len(t.ssh_violators) > 0 THEN "SSH attacks from outside Budapest"
                   ELSE "No SSH attacks detected",
                   IF t.multi_sensor_violators # {} THEN "Port scanning from"
                   ELSE "No port scanning detected",
                   "Total malicious IPs to block">>
            ELSE <<"No suspicious SSH attempts from outside Budapest",
                   "No port scanning activity detected",
                   "All traffic appears legitimate">>,
        recommendations |->
            IF n > 0
            THEN <<"Execute the iptables commands below immediately",
                   "Monitor /var/log/auth.log for continued attacks",
                   "Consider implementing fail2ban for automated blocking">>
            ELSE <<"Continue monitoring with the commands provided below",
                   "Review logs periodically for new threats",
                   "Maintain current security posture">>,
        suggested_commands |-> commands,
        confidence |-> "High",
        analysis_method |-> "Automated Threat Detection"]

\* ------------------------------------------------------ NVIDIANIMClient
\* keys the model may put in the fenced JSON object of its reply
ModelKeys == {"executive_summary", "risk_level", "key_findings",
              "recommendations", "suggested_commands"}

ModelValue ==
    [executive_summary |-> "model summary",
     risk_level |-> "Critical",
     key_findings |-> <<"model finding">>,
     recommendations |-> <<"model recommendation">>,
     suggested_commands |-> <<PlainCommand("model command")>>]

\* an object with every key above and the confidence and analysis_method
\* the default prompt asks for
PromptedValue ==
    [k \in ModelKeys \cup {"confidence", "analysis_method"} |->
        CASE k = "confidence" -> "High"
          [] k = "analysis_method" -> "NVIDIA NIM Analysis of Oracle Cloud logs"
          [] OTHER -> ModelValue[k]]

\* a reply text: whether it holds a ```json {...} ``` block, whether the
\* block decodes after _clean_json_string, and the object it decodes to
ModelReplies ==
    {[fenced |-> FALSE, decodes |-> FALSE, json |-> EmptyDict],
     [fenced |-> TRUE, decodes |-> FALSE, json |-> EmptyDict]}
    \cup {[fenced |-> TRUE, decodes |-> TRUE, json |-> [k \in S |-> ModelValue[k]]] :
            S \in SUBSET ModelKeys}
    \cup {[fenced |-> TRUE, decodes |-> TRUE, json |-> PromptedValue]}

\* what the chat/completions call does: raise (HTTP error, timeout) or reply
ModelOutcomes == {[raises |-> TRUE]} \cup {[raises |-> FALSE, content |-> c] : c \in ModelReplies}

\* the replies followed through whole runs: no block, a block that does not
\* decode, a complete object, an object lacking two required fields
RunReplies ==
    {c \in ModelReplies :
        c.decodes => DOMAIN c.json \in {ModelKeys, {"executive_summary", "risk_level"}}}

RunOutcomes == {o \in ModelOutcomes : ~o.raises => o.content \in RunReplies}

_extract_json_from_markdown(content) ==
    IF content.fenced
    THEN IF content.decodes THEN content.json ELSE EmptyDict
    ELSE EmptyDict

_parse_comprehensive_response(content) ==
    LET json_data == _extract_json_from_markdown(content)
    IN [executive_summary |-> Get(json_data, "executive_summary", "Analysis completed"),
        risk_level |-> Get(json_data, "risk_level", "Medium"),
        key_findings |-> Get(json_data, "key_findings", <<>>),
        recommendations |-> Get(json_data, "recommendations", <<>>),
        confidence |-> Get(json_data, "confidence", "Medium"),
        analysis_method |-> Get(json_data, "analysis_method", "NVIDIA NIM Analysis"),
        response_type |-> "comprehensive",
        has_json |-> DOMAIN json_data # {}]

\* ------------------------------------------------------------ MCPClient
\* what the backend process does with the initialize request
InitializeOutcomes == {"result", "error", "neither", "exit_nonzero", "no_valid_json", "timeout"}

\* the dict _call_server_simple returns for each of them
InitializeResponse(outcome) ==
    CASE outcome = "result" -> [jsonrpc |-> "2.0", result |-> "capabilities"]
      [] outcome = "error" -> [jsonrpc |-> "2.0", error |-> "Method not found"]
      [] outcome = "neither" -> [jsonrpc |-> "2.0"]
      [] outcome = "exit_nonzero" -> [error |-> "Server error"]
      [] outcome = "no_valid_json" -> [error |-> "No valid JSON response"]
      [] outcome = "timeout" -> [error |-> "timed out"]

\* the check without its first half: any reply that has no error passes
test_connection_no_error(resp) == "error" \notin DOMAIN resp

test_connection(resp) == "result" \in DOMAIN resp /\ "error" \notin DOMAIN resp

\* ---------------------------------------- OracleLogsClient (the backend)
\* data of a log line (logContent.data): a dict with an IP, a Sensor, a
\* City and an ISP, and a Country that may be missing
Sensors == {"ssh", "http"}
Cities == {"Budapest", "Vienna"}
Addrs == 1..MaxAddr

LogData ==
    {[IP |-> ip, Sensor |-> s, City |-> c, ISP |-> "isp1"] :
        ip \in Addrs, s \in Sensors, c \in Cities}
    \cup {[IP |-> ip, Sensor |-> s, City |-> c, ISP |-> "isp1", Country |-> "HU"] :
            ip \in Addrs, s \in Sensors, c \in Cities}

RECURSIVE LogLists(_)
\* what _execute_oracle_query returns: at most n log lines
LogLists(n) ==
    IF n = 0 THEN {<<>>}
    ELSE LogLists(n - 1)
         \cup {Append(l, d) : l \in {x \in LogLists(n - 1) : Len(x) = n - 1}, d \in LogData}

RECURSIVE Values(_, _)
\* [d[k] for d in l if d.get(k, '')]
Values(l, k) ==
    IF l = <<>> THEN <<>>
    ELSE (IF k \in DOMAIN Head(l) THEN <<Head(l)[k]>> ELSE <<>>) \o Values(Tail(l), k)

RECURSIVE CityCountry(_)
\* [f"{city}, {country}" if country else city for the lines with a city]
CityCountry(l) ==
    IF l = <<>> THEN <<>>
    ELSE (IF "City" \in DOMAIN Head(l)
          THEN <<IF "Country" \in DOMAIN Head(l)
                 THEN [city |-> Head(l)["City"], country |-> Head(l)["Country"]]
                 ELSE [city |-> Head(l)["City"], country |-> ""]>>
          ELSE <<>>) \o CityCountry(Tail(l))

\* Counter(l)[v]
Count(l, v) == Cardinality({i \in DOMAIN l : l[i] = v})

\* dict(Counter(l))
Counter(l) == [v \in Range(l) |-> Count(l, v)]

FirstIndex(l, v) == CHOOSE i \in DOMAIN l : l[i] = v /\ \A j \in DOMAIN l : l[j] = v => i <= j

RECURSIVE MostCommonOf(_, _)
\* the values in s by falling count in l, equal counts in order of first
\* occurrence
MostCommonOf(l, s) ==
    IF s = {} THEN <<>>
    ELSE LET top == CHOOSE v \in s : \A w \in s :
                        \/ Count(l, v) > Count(l, w)
                        \/ Count(l, v) = Count(l, w) /\ FirstIndex(l, v) <= FirstIndex(l, w)
         IN <<[name |-> top, count |-> Count(l, top)]>> \o MostCommonOf(l, s \ {top})

\* the first n values by falling count, equal counts by name
most_common_alphabetical(l, n) ==
    LET Rank(v) == 1 + Cardinality({w \in Range(l) :
                        \/ Count(l, w) > Count(l, v)
                        \/ Count(l, w) = Count(l, v) /\ w < v})
        k == IF Cardinality(Range(l)) < n THEN Cardinality(Range(l)) ELSE n
    IN [i \in 1..k |->
          LET v == CHOOSE x \in Range(l) : Rank(x) = i
          IN [name |-> v, count |-> Count(l, v)]]

\* Counter(l).most_common(n)
most_common(l, n) ==
    LET all == MostCommonOf(l, Range(l))
    IN SubSeq(all, 1, IF Len(all) < n THEN Len(all) ELSE n)

\* dict(pairs)
DictOf(pairs) ==
    [v \in {pairs[i].name : i \in DOMAIN pairs} |->
        (CHOOSE p \in Range(pairs) : p.name = v).count]

TopKey(group_by) ==
    CASE group_by = "country" -> "top_country"
      [] group_by = "city" -> "top_city"
      [] group_by = "sensor" -> "top_sensor"
      [] group_by = "isp" -> "top_isp"

\* the value grouped under for a group_by, for the lines that have one
GroupedData(oracle_logs, group_by) ==
    CASE group_by = "country" -> Values(oracle_logs, "Country")
      [] group_by = "city" -> CityCountry(oracle_logs)
      [] group_by = "isp" -> Values(oracle_logs, "ISP")
      [] group_by = "sensor" -> Values(oracle_logs, "Sensor")

_process_analytics(oracle_logs, group_by) ==
    LET sensors == Values(oracle_logs, "Sensor")
        countries == Values(oracle_logs, "Country")
        cities == Values(oracle_logs, "City")
        isps == Values(oracle_logs, "ISP")
        unique_ips == Range(Values(oracle_logs, "IP"))
        grouped_data == GroupedData(oracle_logs, group_by)
        fixed == [unique_ips |-> Cardinality(unique_ips),
                  unique_countries |-> Cardinality(Range(countries)),
                  unique_cities |-> Cardinality(Range(cities)),
                  unique_sensors |-> Cardinality(Range(sensors)),
                  unique_isps |-> Cardinality(Range(isps)),
                  sensor_distribution |-> Counter(sensors),
                  country_distribution |-> Counter(countries),
                  city_distribution |-> DictOf(most_common(cities, 10)),
                  isp_distribution |-> DictOf(most_common(isps, 10)),
                  raw_counts |-> [total_logs |-> Len(oracle_logs),
                                  grouped_items |-> Len(grouped_data),
                                  sensors |-> Len(sensors),
                                  countries |-> Len(countries),
                                  cities |-> Len(cities),
                                  isps |-> Len(isps)]]
    IN DictSet(fixed, TopKey(group_by), most_common(grouped_data, 10))

\* OracleLogsClient.get_traffic_analytics on the lines the query returned
OracleLogsClient_get_traffic_analytics(oracle_logs, group_by) ==
    LET analytics == _process_analytics(oracle_logs, group_by)
    IN DictSet(DictSet(analytics, "time_range", "1h"), "total_requests", Len(oracle_logs))

\* the fields of the LogEntry built from a log line
_parse_oracle_log_entry(data) ==
    [ip |-> data["IP"],
     sensor |-> Get(data, "Sensor", ""),
     country |-> Get(data, "Country", ""),
     city |-> Get(data, "City", ""),
     isp |-> Get(data, "ISP", "")]

\* a Python list held where a dict may be held instead
PyList(l) == [list |-> l]

IsList(x) == "list" \in DOMAIN x

\* OracleLogsClient.search_logs_by_ip on the lines the query returned
OracleLogsClient_search_logs_by_ip(oracle_logs) ==
    PyList([i \in DOMAIN oracle_logs |-> _parse_oracle_log_entry(oracle_logs[i])])

\* --------------------------------------------------- MCPServer (server.py)
\* json.dumps(v) and json.loads(text): the values written are dicts and
\* lists of strings and integers, which json.loads gives back
json_dumps(v) == [json |-> v]

json_loads(text) == text["json"]

\* handle_call_tool for the tools the aggregator calls; the server has no
\* tool named search_logs_by_countries
handle_call_tool(name, arguments, oracle_logs) ==
    CASE name = "get_traffic_analytics" ->
            [jsonrpc |-> "2.0",
             result |-> [content |-> <<[type |-> "text",
                 text |-> json_dumps(OracleLogsClient_get_traffic_analytics(oracle_logs, arguments))]>>]]
      [] name = "search_logs_by_ip" ->
            [jsonrpc |-> "2.0",
             result |-> [content |-> <<[type |-> "text",
                 text |-> json_dumps(OracleLogsClient_search_logs_by_ip(oracle_logs))]>>]]
      [] OTHER -> [jsonrpc |-> "2.0", error |-> [code |-> -1, message |-> "Unknown tool"]]

\* --------------------------------------- MCPClient, the domain methods
\* what a domain method returns for the response _call_server_simple gave
\* to its tools/call request
ExtractData(resp) ==
    IF "error" \in DOMAIN resp
    THEN [error |-> resp["error"]]
    ELSE LET result == Get(resp, "result", EmptyDict)
             texts == IF "content" \in DOMAIN result
                      THEN SelectSeq(result["content"], LAMBDA item : item["type"] = "text")
                      ELSE <<>>
         IN IF texts # <<>>
            THEN IF "json" \in DOMAIN texts[1]["text"]
                 THEN json_loads(texts[1]["text"])
                 ELSE [raw |-> texts[1]["text"]]
            ELSE result

get_traffic_analytics_by_group(resp) == ExtractData(resp)

MCPClient_search_logs_by_ip(resp) == ExtractData(resp)

search_logs_by_countries(resp) == ExtractData(resp)

\* the response of _call_server_simple to a tools/call: the error dict when
\* the call failed (exit code, timeout, no valid line), else the line the
\* server printed
ToolResponse(call_failed, name, arguments, oracle_logs) ==
    IF call_failed
    THEN [error |-> "Command timed out after 30 seconds"]
    ELSE handle_call_tool(name, arguments, oracle_logs)


\* ------------------------------------------- MCPClient._call_server_simple
\* a line of the backend's output after strip(): whether it starts with a
\* brace, whether it holds the text "jsonrpc" in quotes, and the object
\* json.loads gives for it, None when json.loads raises
NoiseLines == {[starts_brace |-> b, has_jsonrpc |-> j, obj |-> None] : b, j \in BOOLEAN}

\* the line json.dumps writes for an object
ObjectLine(o) == [starts_brace |-> TRUE, has_jsonrpc |-> "jsonrpc" \in DOMAIN o, obj |-> o]

ResponseObjects ==
    {[jsonrpc |-> "2.0", result |-> "first"],
     [jsonrpc |-> "2.0", result |-> "second"],
     [jsonrpc |-> "2.0", error |-> [code |-> -1, message |-> "failed"]]}

\* objects that are no response: a structured log record, and a reply with
\* neither result nor error
OtherObjects == {[level |-> "INFO"], [jsonrpc |-> "2.0"]}

Lines == NoiseLines \cup {ObjectLine(o) : o \in ResponseObjects \cup OtherObjects}

RECURSIVE LineLists(_)
\* result.stdout.strip().split('\n'): at most n lines
LineLists(n) ==
    IF n = 0 THEN {<<>>}
    ELSE LineLists(n - 1)
         \cup {Append(l, x) : l \in {y \in LineLists(n - 1) : Len(y) = n - 1}, x \in Lines}

RECURSIVE ParseResponse(_)
\* the loop over the output lines
ParseResponse(lines) ==
    IF lines = <<>> THEN [error |-> "No valid JSON response"]
    ELSE IF Head(lines).starts_brace /\ Head(lines).has_jsonrpc /\ Head(lines).obj # None
         THEN Head(lines).obj
         ELSE ParseResponse(Tail(lines))

\* what subprocess.run did: it raised (TimeoutExpired after 30 seconds, or
\* OSError when the process could not be started), or the process exited
\* with a code and an output
Exceptions == {"TimeoutExpired", "OSError"}

RaisedWith(exception) == [raised |-> TRUE, exception |-> exception]

Raised == RaisedWith("TimeoutExpired")

\* str(e) of the exception caught
StrOfException(exception) ==
    CASE exception = "TimeoutExpired" -> "Command timed out after 30 seconds"
      [] exception = "OSError" -> "[Errno 12] Cannot allocate memory"

Exited(returncode, stdout) == [raised |-> FALSE, returncode |-> returncode, stdout |-> stdout]

\* a client that takes the output to be the response line alone
_call_server_simple_first_line(proc) ==
    IF proc.raised THEN [error |-> StrOfException(proc.exception)]
    ELSE IF proc.returncode # 0 THEN [error |-> "Server error"]
    ELSE ParseResponse(SubSeq(proc.stdout, 1, IF proc.stdout = <<>> THEN 0 ELSE 1))

\* the dict _call_server_simple returns
_call_server_simple(proc) ==
    IF proc.raised THEN [error |-> StrOfException(proc.exception)]
    ELSE IF proc.returncode # 0 THEN [error |-> "Server error"]
    ELSE ParseResponse(proc.stdout)

\* self.request_id without the increment
NextRequestId_reused(id) == id

\* self.request_id += 1
NextRequestId(id) == id + 1

\* ------------------------------------------------- MCPClient, the methods
\* the requests a method hands to _call_server_simple, by method and tool
InitializeRequest == [method |-> "initialize"]

ToolsListRequest == [method |-> "tools/list"]

ToolCallRequest(name) == [method |-> "tools/call", name |-> name]

\* a domain call that sends its tools/call at once
DomainCallRequests_tool_only(name) == <<ToolCallRequest(name)>>

\* the requests of a domain call, in the order sent: each is awaited before
\* the next is sent
DomainCallRequests(name) == <<InitializeRequest, ToolCallRequest(name)>>

list_tools_requests(init_response) ==
    IF "error" \in DOMAIN init_response THEN <<InitializeRequest>>
    ELSE <<InitializeRequest, ToolsListRequest>>

get_traffic_analytics_requests(init_response) ==
    IF "error" \in DOMAIN init_response THEN <<InitializeRequest>>
    ELSE DomainCallRequests("get_traffic_analytics")

list_tools(init_response, tools_response) ==
    IF "error" \in DOMAIN init_response THEN <<>>
    ELSE IF "error" \in DOMAIN tools_response THEN <<>>
    ELSE Get(Get(tools_response, "result", EmptyDict), "tools", <<>>)

get_traffic_analytics(init_response, resp) ==
    IF "error" \in DOMAIN init_response THEN [error |-> init_response["error"]]
    ELSE ExtractData(resp)

search_logs_by_country(resp) == ExtractData(resp)

\* ----------------------------------------------------- AnalyticsService
\* the queries whose results the snapshot holds
Dimensions == {"country", "city", "sensor", "isp", "ip"}

RECURSIVE EntryValues(_, _)
\* the field k of each entry, an empty city counted as 'Unknown'
EntryValues(logs_data, k) ==
    IF logs_data = <<>> THEN <<>>
    ELSE <<IF k = "city" /\ Head(logs_data)[k] = "" THEN "Unknown" ELSE Head(logs_data)[k]>>
         \o EntryValues(Tail(logs_data), k)

\* format_grouped_data of the entries grouped by the field k
format_grouped_data(logs_data, k) ==
    LET groups == EntryValues(logs_data, k)
        OfGroup(g) == SelectSeq([i \in DOMAIN logs_data |->
                                    [ip |-> logs_data[i]["ip"], group |-> groups[i]]],
                                LAMBDA e : e.group = g)
        IpsOf(g) == [i \in DOMAIN OfGroup(g) |-> OfGroup(g)[i].ip]
    IN [g \in Range(groups) |->
            [unique_ips |-> Cardinality(Range(IpsOf(g))),
             top_ip |-> most_common(IpsOf(g), 1)[1],
             all_ips |-> Counter(IpsOf(g))]]

\* ip_distribution is held as the item list of the dict, in its order
_analyze_ip_addresses(logs_data) ==
    LET ips == EntryValues(logs_data, "ip")
    IN [ip_distribution |-> MostCommonOf(ips, Range(ips)),
        ip_by_country |-> format_grouped_data(logs_data, "country"),
        ip_by_sensor |-> format_grouped_data(logs_data, "sensor"),
        ip_by_city |-> format_grouped_data(logs_data, "city"),
        total_unique_ips |-> Cardinality(Range(ips))]

_get_ip_analytics(ip_logs_response) ==
    LET logs_data == IF IsList(ip_logs_response) THEN ip_logs_response["list"] ELSE <<>>
    IN IF logs_data = <<>> /\ "error" \in DOMAIN ip_logs_response
       THEN [ip_distribution |-> <<>>, ip_by_country |-> EmptyDict, ip_by_sensor |-> EmptyDict,
             ip_by_city |-> EmptyDict, total_unique_ips |-> 0,
             error |-> ip_logs_response["error"]]
       ELSE _analyze_ip_addresses(logs_data)

\* all or nothing: one failed query leaves every dimension with the error
_get_multi_dimensional_data_all_or_nothing(failed, oracle_logs) ==
    LET Analytics(group_by) ==
            get_traffic_analytics_by_group(
                ToolResponse(failed \cap {"country", "city", "sensor", "isp"} # {},
                             "get_traffic_analytics", group_by, oracle_logs))
    IN [country_analytics |-> Analytics("country"),
        city_analytics |-> Analytics("city"),
        sensor_analytics |-> Analytics("sensor"),
        isp_analytics |-> Analytics("isp"),
        time_range |-> "1h"]

\* failed: the queries whose tools/call failed
_get_multi_dimensional_data(failed, oracle_logs) ==
    LET Analytics(group_by) ==
            get_traffic_analytics_by_group(
                ToolResponse(group_by \in failed, "get_traffic_analytics", group_by, oracle_logs))
    IN [country_analytics |-> Analytics("country"),
        city_analytics |-> Analytics("city"),
        sensor_analytics |-> Analytics("sensor"),
        isp_analytics |-> Analytics("isp"),
        time_range |-> "1h"]

_get_countries_data(oracle_logs) ==
    [target_countries |-> "ANALYTICS_COUNTRIES",
     logs |-> search_logs_by_countries(
                  ToolResponse(FALSE, "search_logs_by_countries", "countries", oracle_logs)),
     time_range |-> "1h"]

AnalyticsTypes == <<"country_analytics", "city_analytics", "sensor_analytics", "isp_analytics">>

TopsKey(analytics_type) ==
    CASE analytics_type = "country_analytics" -> [top_key |-> "top_country", stat |-> "top_countrys"]
      [] analytics_type = "city_analytics" -> [top_key |-> "top_city", stat |-> "top_citys"]
      [] analytics_type = "sensor_analytics" -> [top_key |-> "top_sensor", stat |-> "top_sensors"]
      [] analytics_type = "isp_analytics" -> [top_key |-> "top_isp", stat |-> "top_isps"]

\* one round of the loop over the analytics types
StatsStep(stats, analytics_type, analytics_data) ==
    LET copied == {"unique_countries", "unique_cities", "unique_sensors", "unique_isps"}
                    \cap DOMAIN analytics_data
        total == IF "total_requests" \in DOMAIN analytics_data
                    /\ analytics_data["total_requests"] > stats["total_requests"]
                 THEN analytics_data["total_requests"]
                 ELSE stats["total_requests"]
        tops == TopsKey(analytics_type)
    IN [k \in DOMAIN stats \cup (IF tops.top_key \in DOMAIN analytics_data THEN {tops.stat} ELSE {}) |->
            CASE k = "total_requests" -> total
              [] k \in copied -> analytics_data[k]
              [] k = tops.stat /\ tops.top_key \in DOMAIN analytics_data -> analytics_data[tops.top_key]
              [] OTHER -> stats[k]]

RECURSIVE StatsLoop(_, _, _)
StatsLoop(stats, data, i) ==
    IF i > Len(AnalyticsTypes) THEN stats
    ELSE StatsLoop(StatsStep(stats, AnalyticsTypes[i], data[AnalyticsTypes[i]]), data, i + 1)

_calculate_summary_stats(data, ip_analytics) ==
    LET stats == [total_requests |-> 0, unique_countries |-> 0, unique_cities |-> 0,
                  unique_sensors |-> 0, unique_isps |-> 0, unique_ips |-> 0,
                  top_sensors |-> <<>>, top_countries |-> <<>>, top_cities |-> <<>>,
                  top_isps |-> <<>>, top_ips |-> <<>>]
        looped == StatsLoop(stats, data, 1)
        ip_distribution == Get(ip_analytics, "ip_distribution", <<>>)
    IN [looped EXCEPT !["unique_ips"] = Get(ip_analytics, "total_unique_ips", 0),
                      !["top_ips"] = SubSeq(ip_distribution, 1,
                                            IF Len(ip_distribution) < 10 THEN Len(ip_distribution)
                                            ELSE 10)]

\* the snapshot built from the lines the backend holds for the window and
\* the set of queries whose call failed
prepare_comprehensive_analysis(failed, oracle_logs) ==
    LET current_data == _get_multi_dimensional_data(failed, oracle_logs)
        countries_data == _get_countries_data(oracle_logs)
        ip_analytics ==
            _get_ip_analytics(MCPClient_search_logs_by_ip(
                ToolResponse("ip" \in failed, "search_logs_by_ip", "0.0.0.0/0", oracle_logs)))
    IN [current_period |-> DictSet(current_data, "ip_analytics", ip_analytics),
        countries_analysis |-> countries_data,
        summary_statistics |-> _calculate_summary_stats(current_data, ip_analytics),
        target_countries |-> "ANALYTICS_COUNTRIES"]

\* the cases followed through whole runs: every query answered over one
\* log line, and every query failed
SampleLogs == <<[IP |-> 1, Sensor |-> "ssh", City |-> "Vienna", Country |-> "HU", ISP |-> "isp1"]>>

RunSnapshots ==
    {prepare_comprehensive_analysis({}, SampleLogs),
     prepare_comprehensive_analysis(Dimensions, SampleLogs)}

\* ------------------------------------------------- run_analysis, Step 4
RequiredKeys == {"executive_summary", "risk_level", "key_findings", "recommendations"}

\* a fallback dict with the parser's defaults for risk and confidence
ServiceErrorAnalysis_parser_defaults ==
    [executive_summary |-> "AI analysis encountered an error. Manual review of log data is recommended.",
     risk_level |-> "Medium",
     key_findings |-> <<"AI analysis service unavailable", "Manual review required", "Error">>,
     recommendations |-> <<"Perform manual log analysis",
                           "Check NVIDIA NIM service availability",
                           "Review system connectivity and authentication">>,
     confidence |-> "Medium",
     analysis_method |-> "Fallback - Service Error",
     error |-> "str(e)"]

\* the fallback dict of the except branch
ServiceErrorAnalysis ==
    [executive_summary |-> "AI analysis encountered an error. Manual review of log data is recommended.",
     risk_level |-> "Unknown",
     key_findings |-> <<"AI analysis service unavailable", "Manual review required", "Error">>,
     recommendations |-> <<"Perform manual log analysis",
                           "Check NVIDIA NIM service availability",
                           "Review system connectivity and authentication">>,
     confidence |-> "Low",
     analysis_method |-> "Fallback - Service Error",
     error |-> "str(e)"]

\* the merge of the model's analysis with the automated one
MergeAnalysis(nim, automated) ==
    LET with_commands == DictSet(nim, "suggested_commands", automated["suggested_commands"])
    IN [k \in DOMAIN with_commands \cup RequiredKeys |->
            IF k \in DOMAIN with_commands THEN with_commands[k] ELSE automated[k]]

\* the assessment Step 4 leaves in nim_analysis
Assess(data, outcome) ==
    IF outcome.raises
    THEN ServiceErrorAnalysis
    ELSE MergeAnalysis(_parse_comprehensive_response(outcome.content),
                       _generate_security_commands(data))

\* ------------------------------------------------------------- the state
Jobs == {"interval", "initial"}

\* no run_analysis has been called
NoRunYet ==
    /\ sched_run = 0
    /\ sched_job = "none"
    /\ response = None
    /\ started = 0
    /\ pc = [r \in Runs |-> "idle"]
    /\ connections = [r \in Runs |-> None]
    /\ analysis_data = [r \in Runs |-> None]
    /\ nim_analysis = [r \in Runs |-> None]
    /\ report_path = [r \in Runs |-> "unset"]
    /\ upload_success = [r \in Runs |-> FALSE]
    /\ init_outcome = [r \in Runs |-> "none"]
    /\ calls = [r \in Runs |-> {}]
    /\ returned = [r \in Runs |-> None]
    /\ last_returned = 0
    /\ last_analysis_result = None

\* the application has started: lifespan has built the AnalysisScheduler and
\* called start_scheduler; no run has been triggered
Started ==
    /\ is_running = TRUE
    /\ jobs = Jobs
    /\ NoRunYet

\* AnalysisScheduler.__init__: the scheduler has not been started
Constructed ==
    /\ is_running = FALSE
    /\ jobs = {}
    /\ NoRunYet

\* no snapshot has been built outside a run
AggIdle == agg_in = None /\ agg_out = None

\* no backend output has been scanned outside a run
ScanIdle == scan_in = None /\ scan_out = None

\* MCPClient.__init__
ClientNew == request_id = 0 /\ assigned_ids = <<>> /\ client_call = None

\* no run is followed call by call
FlowIdle ==
    /\ call_index = 0
    /\ in_flight = None
    /\ trace = <<>>
    /\ stages = <<>>
    /\ last_response = None
    /\ blocked_for = 0
    /\ run_status = None

\* the scheduler threads and the status query are not followed
LoopIdle == threads = <<>> /\ status_call = None /\ initial_runs = 0

\* no function is applied on its own, no thread is inside the client
FnIdle == fn_in = None /\ fn_out = None /\ callers = <<>>

Init ==
    /\ Started
    /\ cmd_in = None
    /\ cmd_out = None
    /\ assess_in = None
    /\ assess_out = None
    /\ AggIdle /\ ScanIdle /\ ClientNew /\ FlowIdle /\ LoopIdle /\ FnIdle

\* ---------------------------------------------------------- the triggers
\* a call of run_analysis: analysis_start_time is taken, the run is at
\* _create_report_directory
Invoke(r) ==
    /\ started < MaxRuns
    /\ r = started + 1
    /\ started' = r
    /\ pc' = [pc EXCEPT ![r] = "mkdir"]

\* POST /api/run-analysis
trigger_analysis(r) ==
    /\ Invoke(r)
    /\ response' = [message |-> "Analysis started", status |-> "running"]
    /\ UNCHANGED <<sched_vars, local_vars, init_outcome, calls, returned, last_returned,
                   last_analysis_result, cmd_vars>>

run_manual_analysis(r) ==
    /\ Invoke(r)
    /\ UNCHANGED <<sched_vars, response, local_vars, init_outcome, calls, returned, last_returned,
                   last_analysis_result, cmd_vars>>

\* schedule.run_pending() in the scheduler thread runs a registered job, one
\* at a time: asyncio.run(self.run_analysis()). Which job is due is a
\* matter of time and left open; start_scheduler and stop_scheduler are not
\* followed in Spec, where the loop started by lifespan keeps running.
RunJob(r, job) ==
    /\ is_running
    /\ sched_run = 0
    /\ job \in jobs
    /\ Invoke(r)
    /\ sched_run' = r
    /\ sched_job' = job
    /\ UNCHANGED <<is_running, jobs, response, local_vars, init_outcome, calls, returned,
                   last_returned, last_analysis_result, cmd_vars>>

_run_scheduled_analysis(r) == RunJob(r, "interval")

_run_initial_analysis(r) == RunJob(r, "initial")

\* the job wrapper ends: the exception, if any, is logged, and the initial
\* job clears its tag
JobDone ==
    /\ sched_run # 0
    /\ pc[sched_run] \in {"done", "raised"}
    /\ jobs' = IF sched_job = "initial" THEN jobs \ {"initial"} ELSE jobs
    /\ sched_run' = 0
    /\ sched_job' = "none"
    /\ UNCHANGED <<is_running, response, started, pc, local_vars, init_outcome, calls, returned,
                   last_returned, last_analysis_result, cmd_vars>>

\* ------------------------------------------------------- run_analysis
\* run_analysis returns value: the locals go away
Return(r, value) ==
    /\ pc' = [pc EXCEPT ![r] = "done"]
    /\ returned' = [returned EXCEPT ![r] = value]
    /\ last_returned' = r
    /\ connections' = [connections EXCEPT ![r] = None]
    /\ analysis_data' = [analysis_data EXCEPT ![r] = None]
    /\ nim_analysis' = [nim_analysis EXCEPT ![r] = None]
    /\ report_path' = [report_path EXCEPT ![r] = "unset"]
    /\ upload_success' = [upload_success EXCEPT ![r] = FALSE]

\* a record stored before its fields are all set
ExceptionResult_partial(r) ==
    [success |-> FALSE, timestamp |-> r]

\* the outer except branch
ExceptionResult(r) ==
    [success |-> FALSE, error |-> "str(e)", timestamp |-> r,
     duration_seconds |-> "elapsed", report_dir |-> r]

\* report_dir = self._create_report_directory(), before the try
CreateReportDirectory(r) ==
    /\ pc[r] = "mkdir"
    /\ calls' = [calls EXCEPT ![r] = @ \cup {"makedirs"}]
    /\ \E ok \in BOOLEAN :
        IF ok
        THEN /\ pc' = [pc EXCEPT ![r] = "connect"]
             /\ UNCHANGED returned
        ELSE /\ pc' = [pc EXCEPT ![r] = "raised"]
             /\ returned' = [returned EXCEPT ![r] = [raised |-> "OSError"]]
    /\ UNCHANGED <<sched_vars, response, started, local_vars, init_outcome, last_returned,
                   last_analysis_result, cmd_vars>>

\* Step 1: test_connections and the check of mcp_connected
Handshake(r) ==
    /\ pc[r] = "connect"
    /\ \E outcome \in InitializeOutcomes :
        /\ init_outcome' = [init_outcome EXCEPT ![r] = outcome]
        /\ LET mcp_ok == test_connection(InitializeResponse(outcome))
            conn == [mcp_connected |-> mcp_ok]
           IN IF mcp_ok
              THEN /\ calls' = [calls EXCEPT ![r] = @ \cup {"initialize", "list_tools"}]
                   /\ connections' = [connections EXCEPT ![r] = conn]
                   /\ pc' = [pc EXCEPT ![r] = "fetch"]
                   /\ UNCHANGED <<analysis_data, nim_analysis, report_path, upload_success,
                                  returned, last_returned>>
              ELSE /\ calls' = [calls EXCEPT ![r] = @ \cup {"initialize"}]
                   /\ Return(r, [success |-> FALSE,
                                 error |-> "Cannot proceed without MCP server connection",
                                 timestamp |-> r, connections |-> conn, report_dir |-> r])
    /\ UNCHANGED <<sched_vars, response, started, last_analysis_result, cmd_vars>>

\* Steps 2 and 3: the prompt is loaded, the snapshot gathered
Fetch(r) ==
    /\ pc[r] = "fetch"
    /\ calls' = [calls EXCEPT ![r] = @ \cup {"get_analysis_prompt", "fetch"}]
    /\ \E snapshot \in RunSnapshots :
        analysis_data' = [analysis_data EXCEPT ![r] = snapshot]
    /\ pc' = [pc EXCEPT ![r] = "assess"]
    /\ UNCHANGED <<sched_vars, response, started, connections, nim_analysis, report_path,
                   upload_success, init_outcome, returned, last_returned,
                   last_analysis_result, cmd_vars>>

\* Step 4: the model is called and its analysis merged, or the except
\* branch builds the fallback
AssessStep(r) ==
    /\ pc[r] = "assess"
    /\ calls' = [calls EXCEPT ![r] = @ \cup {"model"}]
    /\ \E outcome \in RunOutcomes :
        nim_analysis' = [nim_analysis EXCEPT ![r] = Assess(analysis_data[r], outcome)]
    /\ pc' = [pc EXCEPT ![r] = "assemble"]
    /\ UNCHANGED <<sched_vars, response, started, connections, analysis_data, report_path,
                   upload_success, init_outcome, returned, last_returned,
                   last_analysis_result, cmd_vars>>

\* Step 5: generate_markdown_report, the fallback JSON if it raises, the
\* outer except branch if that raises too. nim_analysis is not read after
\* this step and is dropped here.
Assemble(r) ==
    /\ pc[r] = "assemble"
    /\ \E outcome \in {"ok", "fallback", "raises"} :
        CASE outcome = "ok" ->
                /\ calls' = [calls EXCEPT ![r] = @ \cup {"generate_markdown_report"}]
                /\ report_path' = [report_path EXCEPT ![r] = "analysis_report.md"]
                /\ nim_analysis' = [nim_analysis EXCEPT ![r] = None]
                /\ pc' = [pc EXCEPT ![r] = "upload"]
                /\ UNCHANGED <<connections, analysis_data, upload_success,
                               returned, last_returned, last_analysis_result>>
          [] outcome = "fallback" ->
                /\ calls' = [calls EXCEPT ![r] = @ \cup {"generate_markdown_report", "fallback_json"}]
                /\ report_path' = [report_path EXCEPT ![r] = "fallback_analysis.json"]
                /\ nim_analysis' = [nim_analysis EXCEPT ![r] = None]
                /\ pc' = [pc EXCEPT ![r] = "upload"]
                /\ UNCHANGED <<connections, analysis_data, upload_success,
                               returned, last_returned, last_analysis_result>>
          [] outcome = "raises" ->
                /\ calls' = [calls EXCEPT ![r] = @ \cup {"generate_markdown_report", "fallback_json"}]
                /\ last_analysis_result' = ExceptionResult(r)
                /\ Return(r, ExceptionResult(r))
    /\ UNCHANGED <<sched_vars, response, started, init_outcome, cmd_vars>>

\* Step 6: the upload, whose failures are logged
Upload(r) ==
    /\ pc[r] = "upload"
    /\ \E outcome \in {"skipped", "ok", "false", "raises"} :
        /\ calls' = [calls EXCEPT ![r] = IF outcome = "skipped" THEN @ ELSE @ \cup {"upload_report"}]
        /\ upload_success' = [upload_success EXCEPT ![r] = (outcome = "ok")]
    /\ pc' = [pc EXCEPT ![r] = "finish"]
    /\ UNCHANGED <<sched_vars, response, started, connections, analysis_data, nim_analysis,
                   report_path, init_outcome, returned, last_returned,
                   last_analysis_result, cmd_vars>>

\* a result whose status follows the upload
SuccessResult_upload_status(r) ==
    [success |-> upload_success[r], report_path |-> report_path[r], report_dir |-> r,
     uploaded_to_oci |-> upload_success[r], timestamp |-> r,
     duration_seconds |-> "elapsed", connections |-> connections[r],
     data_summary |-> [time_range |-> analysis_data[r]["current_period"]["time_range"]],
     analysis_method |-> "NVIDIA NIM"]

SuccessResult(r) ==
    [success |-> TRUE, report_path |-> report_path[r], report_dir |-> r,
     uploaded_to_oci |-> upload_success[r], timestamp |-> r,
     duration_seconds |-> "elapsed", connections |-> connections[r],
     data_summary |-> [time_range |-> analysis_data[r]["current_period"]["time_range"]],
     analysis_method |-> "NVIDIA NIM"]

\* the result is built, stored and returned
Finish(r) ==
    /\ pc[r] = "finish"
    /\ last_analysis_result' = SuccessResult(r)
    /\ Return(r, SuccessResult(r))
    /\ UNCHANGED <<sched_vars, response, started, init_outcome, calls, cmd_vars>>

Next ==
    \/ \E r \in Runs : trigger_analysis(r)
    \/ \E r \in Runs : run_manual_analysis(r)
    \/ \E r \in Runs : _run_scheduled_analysis(r)
    \/ \E r \in Runs : _run_initial_analysis(r)
    \/ JobDone
    \/ \E r \in Runs : CreateReportDirectory(r)
    \/ \E r \in Runs : Handshake(r)
    \/ \E r \in Runs : Fetch(r)
    \/ \E r \in Runs : AssessStep(r)
    \/ \E r \in Runs : Assemble(r)
    \/ \E r \in Runs : Upload(r)
    \/ \E r \in Runs : Finish(r)

Spec == Init /\ [][Next]_vars

\* ------------------------- _generate_security_commands on its own inputs
\* lists of at most n addresses
RECURSIVE IpLists(_)
IpLists(n) ==
    IF n = 0 THEN {<<>>}
    ELSE IpLists(n - 1) \cup {Append(l, ip) : l \in {x \in IpLists(n - 1) : Len(x) = n - 1}, ip \in Ips}

\* a snapshot whose ip_analytics carries threat indicators
Flagged(ssh, multi) ==
    [current_period |->
        [ip_analytics |->
            [threat_indicators |-> [ssh_outside_budapest |-> ssh, multiple_sensors |-> multi]],
         time_range |-> "1h"]]

CmdInputs ==
    {Flagged(ssh, multi) : ssh \in IpLists(MaxViolators), multi \in SUBSET Ips}
    \cup RunSnapshots

InitCmd ==
    /\ Started
    /\ cmd_in \in CmdInputs
    /\ cmd_out = None
    /\ assess_in = None
    /\ assess_out = None
    /\ AggIdle /\ ScanIdle /\ ClientNew /\ FlowIdle /\ LoopIdle /\ FnIdle

GenerateCommands ==
    /\ cmd_in # None
    /\ cmd_out = None
    /\ cmd_out' = _generate_security_commands(cmd_in)
    /\ UNCHANGED <<run_vars, cmd_in, assess_in, assess_out, agg_vars, scan_vars, client_vars, flow_vars, loop_vars, fn_vars, callers>>

NextCmd == GenerateCommands

SpecCmd == InitCmd /\ [][NextCmd]_vars

\* ------------------------------ Step 4 under two behaviours of the model
Snapshots == RunSnapshots

InitAssess ==
    /\ Started
    /\ cmd_in = None
    /\ cmd_out = None
    /\ assess_in \in [data : Snapshots, first : ModelOutcomes, second : ModelOutcomes]
    /\ assess_out = None
    /\ AggIdle /\ ScanIdle /\ ClientNew /\ FlowIdle /\ LoopIdle /\ FnIdle

AssessBoth ==
    /\ assess_in # None
    /\ assess_out = None
    /\ assess_out' = [first |-> Assess(assess_in.data, assess_in.first),
                      second |-> Assess(assess_in.data, assess_in.second)]
    /\ UNCHANGED <<run_vars, cmd_in, cmd_out, assess_in, agg_vars, scan_vars, client_vars, flow_vars, loop_vars, fn_vars, callers>>

NextAssess == AssessBoth

SpecAssess == InitAssess /\ [][NextAssess]_vars

\* ------------------------- prepare_comprehensive_analysis on its own inputs
\* no query fails, one fails, or all fail
FailurePatterns == {{}} \cup {{q} : q \in Dimensions} \cup {Dimensions}

CmdIdle == cmd_in = None /\ cmd_out = None /\ assess_in = None /\ assess_out = None

InitAgg ==
    /\ Started
    /\ CmdIdle /\ ScanIdle /\ ClientNew /\ FlowIdle /\ LoopIdle /\ FnIdle
    /\ agg_in \in [oracle_logs : LogLists(MaxLogs), failed : FailurePatterns]
    /\ agg_out = None

PrepareAnalysis ==
    /\ agg_in # None
    /\ agg_out = None
    /\ agg_out' = prepare_comprehensive_analysis(agg_in.failed, agg_in.oracle_logs)
    /\ UNCHANGED <<run_vars, cmd_in, cmd_out, assess_in, assess_out, agg_in, scan_vars, client_vars, flow_vars, loop_vars, fn_vars, callers>>

NextAgg == PrepareAnalysis

SpecAgg == InitAgg /\ [][NextAgg]_vars

\* ------------------------------- _call_server_simple on a process's output
InitScan ==
    /\ Started
    /\ CmdIdle /\ AggIdle /\ ClientNew /\ FlowIdle /\ LoopIdle /\ FnIdle
    /\ scan_in \in {RaisedWith(e) : e \in Exceptions}
                    \cup {Exited(c, l) : c \in {0, 1}, l \in LineLists(MaxLines)}
    /\ scan_out = None

CallServerSimple ==
    /\ scan_in # None
    /\ scan_out = None
    /\ scan_out' = _call_server_simple(scan_in)
    /\ UNCHANGED <<run_vars, cmd_in, cmd_out, assess_in, assess_out, agg_vars, scan_in, client_vars, flow_vars, loop_vars, fn_vars, callers>>

NextScan == CallServerSimple

SpecScan == InitScan /\ [][NextScan]_vars

\* ------------------------------------------- one MCPClient, call after call
\* what the backend process does with a request, and the process outcome
\* that makes; result is the result a well-behaved backend gives
BackendProcess(outcome, result) ==
    CASE outcome = "result" ->
            Exited(0, <<[starts_brace |-> FALSE, has_jsonrpc |-> FALSE, obj |-> None],
                        ObjectLine([jsonrpc |-> "2.0", result |-> result])>>)
      [] outcome = "error" ->
            Exited(0, <<ObjectLine([jsonrpc |-> "2.0", error |-> [code |-> -1, message |-> "failed"]])>>)
      [] outcome = "neither" -> Exited(0, <<ObjectLine([jsonrpc |-> "2.0"])>>)
      [] outcome = "exit_nonzero" -> Exited(1, <<>>)
      [] outcome = "no_valid_json" ->
            Exited(0, <<[starts_brace |-> FALSE, has_jsonrpc |-> FALSE, obj |-> None]>>)
      [] outcome = "timeout" -> Raised

\* the results of a well-behaved backend
ToolsResult == [tools |-> <<"get_traffic_analytics", "search_logs_by_ip">>]

AnalyticsResult == handle_call_tool("get_traffic_analytics", "country", SampleLogs)["result"]

IpSearchResult == handle_call_tool("search_logs_by_ip", "0.0.0.0/0", SampleLogs)["result"]

InitializeReply(outcome) == _call_server_simple(BackendProcess(outcome, "capabilities"))

RECURSIVE AssignIds(_, _, _)
\* n requests sent one after the other: each takes the next id
AssignIds(id, ids, n) ==
    IF n = 0 THEN [request_id |-> id, assigned_ids |-> ids]
    ELSE AssignIds(NextRequestId(id), Append(ids, NextRequestId(id)), n - 1)

\* a method sent these requests, got these responses and returned value
MethodReturns(method, requests, responses, value) ==
    /\ Len(assigned_ids) + Len(responses) <= MaxRequests
    /\ request_id' = AssignIds(request_id, assigned_ids, Len(responses)).request_id
    /\ assigned_ids' = AssignIds(request_id, assigned_ids, Len(responses)).assigned_ids
    /\ client_call' = [method |-> method, requests |-> requests,
                       responses |-> responses, value |-> value]
    /\ UNCHANGED <<run_vars, cmd_in, cmd_out, assess_in, assess_out, agg_vars, scan_vars, flow_vars, loop_vars, fn_vars, callers>>

CallTestConnection ==
    \E o \in InitializeOutcomes :
        MethodReturns("test_connection", <<InitializeRequest>>, <<InitializeReply(o)>>,
                      test_connection(InitializeReply(o)))

CallListTools ==
    \E o1, o2 \in InitializeOutcomes :
        LET init_response == InitializeReply(o1)
            tools_response == _call_server_simple(BackendProcess(o2, ToolsResult))
        IN MethodReturns("list_tools", list_tools_requests(init_response),
                         IF "error" \in DOMAIN init_response THEN <<init_response>>
                         ELSE <<init_response, tools_response>>,
                         list_tools(init_response, tools_response))

CallGetTrafficAnalytics ==
    \E o1, o2 \in InitializeOutcomes :
        LET init_response == InitializeReply(o1)
            resp == _call_server_simple(BackendProcess(o2, AnalyticsResult))
        IN MethodReturns("get_traffic_analytics", get_traffic_analytics_requests(init_response),
                         IF "error" \in DOMAIN init_response THEN <<init_response>>
                         ELSE <<init_response, resp>>,
                         get_traffic_analytics(init_response, resp))

CallGetTrafficAnalyticsByGroup ==
    \E o1, o2 \in InitializeOutcomes :
        LET resp == _call_server_simple(BackendProcess(o2, AnalyticsResult))
        IN MethodReturns("get_traffic_analytics_by_group", DomainCallRequests("get_traffic_analytics"),
                         <<InitializeReply(o1), resp>>,
                         get_traffic_analytics_by_group(resp))

CallSearchLogsByIp ==
    \E o1, o2 \in InitializeOutcomes :
        LET resp == _call_server_simple(BackendProcess(o2, IpSearchResult))
        IN MethodReturns("search_logs_by_ip", DomainCallRequests("search_logs_by_ip"),
                         <<InitializeReply(o1), resp>>,
                         MCPClient_search_logs_by_ip(resp))

CallSearchLogsByCountry ==
    \E o1, o2 \in InitializeOutcomes :
        LET resp == _call_server_simple(BackendProcess(o2, IpSearchResult))
        IN MethodReturns("search_logs_by_country", DomainCallRequests("search_logs_by_country"),
                         <<InitializeReply(o1), resp>>,
                         search_logs_by_country(resp))

CallSearchLogsByCountries ==
    \E o1, o2 \in InitializeOutcomes :
        LET resp == _call_server_simple(BackendProcess(o2, IpSearchResult))
        IN MethodReturns("search_logs_by_countries", DomainCallRequests("search_logs_by_countries"),
                         <<InitializeReply(o1), resp>>,
                         search_logs_by_countries(resp))

InitClient ==
    /\ Started
    /\ CmdIdle /\ AggIdle /\ ScanIdle /\ FlowIdle /\ LoopIdle /\ FnIdle
    /\ ClientNew

NextClient ==
    \/ CallTestConnection
    \/ CallListTools
    \/ CallGetTrafficAnalytics
    \/ CallGetTrafficAnalyticsByGroup
    \/ CallSearchLogsByIp
    \/ CallSearchLogsByCountry
    \/ CallSearchLogsByCountries

SpecClient == InitClient /\ [][NextClient]_vars

\* ------------------------ one run_analysis invocation, request by request
\* the protocol requests a method sends, tagged with the stage and the method
MethodCall(stage, caller, requests) ==
    [i \in DOMAIN requests |-> [stage |-> stage, caller |-> caller, request |-> requests[i]]]

\* the protocol requests of a run in which no call fails: test_connections,
\* then prepare_comprehensive_analysis (_get_multi_dimensional_data with its
\* basic test and its four groupings, _get_countries_data, _get_ip_analytics)
Plan ==
    MethodCall("Handshake", "test_connection", <<InitializeRequest>>)
    \o MethodCall("Handshake", "list_tools", <<InitializeRequest, ToolsListRequest>>)
    \o MethodCall("Fetch", "get_traffic_analytics", DomainCallRequests("get_traffic_analytics"))
    \o MethodCall("Fetch", "get_traffic_analytics_by_group", DomainCallRequests("get_traffic_analytics"))
    \o MethodCall("Fetch", "get_traffic_analytics_by_group", DomainCallRequests("get_traffic_analytics"))
    \o MethodCall("Fetch", "get_traffic_analytics_by_group", DomainCallRequests("get_traffic_analytics"))
    \o MethodCall("Fetch", "get_traffic_analytics_by_group", DomainCallRequests("get_traffic_analytics"))
    \o MethodCall("Fetch", "search_logs_by_countries", DomainCallRequests("search_logs_by_countries"))
    \o MethodCall("Fetch", "search_logs_by_ip", DomainCallRequests("search_logs_by_ip"))

\* the positions after the protocol requests
AtModel == Len(Plan) + 1
AtAssemble == Len(Plan) + 2
AtUpload == Len(Plan) + 3
AtFinish == Len(Plan) + 4

\* list_tools and get_traffic_analytics return after an initialize reply
\* with an error; the other methods do not read the reply
NextCall(i, resp) ==
    IF /\ Plan[i].caller \in {"list_tools", "get_traffic_analytics"}
       /\ Plan[i].request = InitializeRequest
       /\ "error" \in DOMAIN resp
    THEN i + 2
    ELSE i + 1

StageAt(i) == IF i > Len(Plan) THEN "Assess" ELSE Plan[i].stage

\* Step 2, the prompt read from object storage or the default prompt
PromptLoad == [stage |-> "Fetch", caller |-> "get_analysis_prompt", request |-> [method |-> "get_object"]]

ModelPost == [stage |-> "Assess", caller |-> "analyze_logs", request |-> [method |-> "chat/completions"]]

ReportCall == [stage |-> "Assemble", caller |-> "generate_markdown_report",
               request |-> [method |-> "generate_markdown_report"]]

UploadCall == [stage |-> "Upload", caller |-> "upload_report", request |-> [method |-> "put_object"]]

\* what the backend process does with a request, and what the model
\* endpoint does with the post
Behaviours == {"result", "error", "exit_nonzero", "hangs"}

ModelBehaviours == {"replies", "http_error", "hangs"}

\* the result a well-behaved backend gives to a request
ResultFor(request) ==
    CASE request.method = "initialize" -> "capabilities"
      [] request.method = "tools/list" -> ToolsResult
      [] request.method = "tools/call" -> AnalyticsResult

\* the call has not come back
Blocked == [blocked |-> TRUE]

\* timeout=30 of subprocess.run and timeout=240.0 of the httpx client
ProtocolTimeout == 30
ModelTimeout == 240

\* subprocess.run without a timeout: a process that hangs is waited for
subprocess_run_no_timeout(behaviour, result) ==
    IF behaviour = "hangs" THEN Blocked ELSE BackendProcess(behaviour, result)

\* subprocess.run(..., timeout=30): a process still running after the
\* timeout is killed and TimeoutExpired raised
subprocess_run(behaviour, result) ==
    IF behaviour = "hangs" THEN RaisedWith("TimeoutExpired") ELSE BackendProcess(behaviour, result)

\* self.client.post(...) and raise_for_status(): an endpoint that sends
\* nothing makes the client raise its timeout after 240 seconds
client_post(behaviour) ==
    CASE behaviour = "replies" ->
            [raises |-> FALSE, content |-> [fenced |-> TRUE, decodes |-> TRUE, json |-> ModelValue]]
      [] behaviour = "http_error" -> [raises |-> TRUE]
      [] behaviour = "hangs" -> [raises |-> TRUE]

Ended(how) == [status |-> how]

InitCalls ==
    /\ Started
    /\ CmdIdle /\ AggIdle /\ ScanIdle /\ ClientNew
    /\ FlowIdle /\ LoopIdle /\ FnIdle

\* run_analysis is called: the report directory is made, Step 1 begins
InvokeRun ==
    /\ call_index = 0
    /\ run_status = None
    /\ \E ok \in BOOLEAN :
        IF ok
        THEN /\ call_index' = 1
             /\ stages' = <<"Handshake">>
             /\ UNCHANGED run_status
        ELSE /\ run_status' = Ended("Raised")
             /\ UNCHANGED <<call_index, stages>>
    /\ UNCHANGED <<run_vars, cmd_in, cmd_out, assess_in, assess_out, agg_vars, scan_vars,
                   client_vars, loop_vars, in_flight, trace, last_response, blocked_for, fn_vars, callers>>

\* _call_server_simple hands the request to a fresh process and waits
SendRequest ==
    /\ call_index \in DOMAIN Plan
    /\ in_flight = None
    /\ run_status = None
    /\ trace' = Append(trace, Plan[call_index])
    /\ \E b \in Behaviours : in_flight' = [kind |-> "protocol", behaviour |-> b]
    /\ UNCHANGED <<run_vars, cmd_in, cmd_out, assess_in, assess_out, agg_vars, scan_vars,
                   client_vars, loop_vars, call_index, stages, last_response, blocked_for, run_status, fn_vars, callers>>

\* the process has exited or was killed at the timeout: _call_server_simple
\* returns, and the method and run_analysis go on from its return
CompleteRequest ==
    /\ in_flight # None
    /\ in_flight.kind = "protocol"
    /\ LET proc == subprocess_run(in_flight.behaviour, ResultFor(Plan[call_index].request))
       IN /\ proc # Blocked
          /\ LET resp == _call_server_simple(proc)
                 next == NextCall(call_index, resp)
             IN /\ last_response' = resp
                /\ IF Plan[call_index].caller = "test_connection" /\ ~test_connection(resp)
                   THEN /\ run_status' = Ended("Failed")
                        /\ UNCHANGED <<call_index, stages, trace>>
                   ELSE /\ call_index' = next
                        /\ stages' = IF StageAt(next) # Plan[call_index].stage
                                     THEN Append(stages, StageAt(next)) ELSE stages
                        /\ trace' = IF StageAt(next) = "Fetch" /\ Plan[call_index].stage = "Handshake"
                                    THEN Append(trace, PromptLoad) ELSE trace
                        /\ UNCHANGED run_status
    /\ blocked_for' = blocked_for + (IF in_flight.behaviour = "hangs" THEN ProtocolTimeout ELSE 0)
    /\ in_flight' = None
    /\ UNCHANGED <<run_vars, cmd_in, cmd_out, assess_in, assess_out, agg_vars, scan_vars, client_vars,
                   loop_vars, fn_vars, callers>>

\* Step 4: analyze_logs posts the prompt and waits
CallModel ==
    /\ call_index = AtModel
    /\ in_flight = None
    /\ run_status = None
    /\ trace' = Append(trace, ModelPost)
    /\ \E b \in ModelBehaviours : in_flight' = [kind |-> "model", behaviour |-> b]
    /\ UNCHANGED <<run_vars, cmd_in, cmd_out, assess_in, assess_out, agg_vars, scan_vars,
                   client_vars, loop_vars, call_index, stages, last_response, blocked_for, run_status, fn_vars, callers>>

\* the post has come back or raised: Step 4 leaves an assessment (the
\* snapshot is not followed here, one with no flagged address stands for it)
CompleteModel ==
    /\ in_flight # None
    /\ in_flight.kind = "model"
    /\ LET post == client_post(in_flight.behaviour)
       IN /\ post # Blocked
          /\ last_response' = Assess(Flagged(<<>>, {}), post)
    /\ blocked_for' = blocked_for + (IF in_flight.behaviour = "hangs" THEN ModelTimeout ELSE 0)
    /\ in_flight' = None
    /\ call_index' = AtAssemble
    /\ stages' = Append(stages, "Assemble")
    /\ UNCHANGED <<run_vars, cmd_in, cmd_out, assess_in, assess_out, agg_vars, scan_vars,
                   client_vars, loop_vars, trace, run_status, fn_vars, callers>>

\* Step 5: the report, the fallback JSON, or the outer except branch
AssembleReport ==
    /\ call_index = AtAssemble
    /\ run_status = None
    /\ trace' = Append(trace, ReportCall)
    /\ \E outcome \in {"ok", "fallback", "raises"} :
        IF outcome = "raises"
        THEN /\ run_status' = Ended("Failed")
             /\ UNCHANGED <<call_index, stages>>
        ELSE /\ call_index' = AtUpload
             /\ stages' = Append(stages, "Upload")
             /\ UNCHANGED run_status
    /\ UNCHANGED <<run_vars, cmd_in, cmd_out, assess_in, assess_out, agg_vars, scan_vars,
                   client_vars, loop_vars, in_flight, last_response, blocked_for, fn_vars, callers>>

\* Step 6: the upload when object storage is configured
UploadReport ==
    /\ call_index = AtUpload
    /\ run_status = None
    /\ \E outcome \in {"skipped", "ok", "false", "raises"} :
        trace' = IF outcome = "skipped" THEN trace ELSE Append(trace, UploadCall)
    /\ call_index' = AtFinish
    /\ UNCHANGED <<run_vars, cmd_in, cmd_out, assess_in, assess_out, agg_vars, scan_vars,
                   client_vars, loop_vars, in_flight, stages, last_response, blocked_for, run_status, fn_vars, callers>>

\* the result is built, stored and returned
FinishRun ==
    /\ call_index = AtFinish
    /\ run_status = None
    /\ run_status' = Ended("Succeeded")
    /\ UNCHANGED <<run_vars, cmd_in, cmd_out, assess_in, assess_out, agg_vars, scan_vars,
                   client_vars, loop_vars, call_index, in_flight, trace, stages, last_response, blocked_for, fn_vars, callers>>

NextCalls ==
    \/ InvokeRun
    \/ SendRequest
    \/ CompleteRequest
    \/ CallModel
    \/ CompleteModel
    \/ AssembleReport
    \/ UploadReport
    \/ FinishRun

\* every call the run waits in comes back when its process or its post
\* does, and the run goes on when it can
SpecCalls == InitCalls /\ [][NextCalls]_vars /\ WF_vars(NextCalls)

\* ------------------------------- the scheduler threads and the status query
\* initial_runs counts the turns of the loop that begin the job tagged
\* 'initial' since start_scheduler last registered it
\* a thread of _scheduler_loop: where it is, the due jobs run_pending has
\* still to run, and the job and the run it is executing
Thread(at, pending, job, run) == [at |-> at, pending |-> pending, job |-> job, run |-> run]

\* sorted(runnable_jobs): the jobs due, by next_run; the initial job, set
\* two minutes after the start, comes before the interval job
DueList(due) ==
    (IF "initial" \in due THEN <<"initial">> ELSE <<>>)
    \o (IF "interval" \in due THEN <<"interval">> ELSE <<>>)

InitSched ==
    /\ Constructed
    /\ response = None
    /\ CmdIdle /\ AggIdle /\ ScanIdle /\ ClientNew /\ FlowIdle /\ LoopIdle /\ FnIdle

\* start_scheduler, which returns at once when is_running is set
start_scheduler ==
    /\ ~is_running
    /\ Len(threads) < MaxThreads
    /\ jobs' = jobs \cup Jobs
    /\ is_running' = TRUE
    /\ threads' = Append(threads, Thread("loop", <<>>, "none", 0))
    /\ initial_runs' = 0
    /\ UNCHANGED <<sched_run, sched_job, response, started, pc, local_vars, init_outcome, calls,
                   returned, last_returned, last_analysis_result, cmd_in, cmd_out, assess_in,
                   assess_out, agg_vars, scan_vars, client_vars, flow_vars, status_call, fn_vars, callers>>

\* stop_scheduler, which returns at once when is_running is not set
stop_scheduler ==
    /\ is_running
    /\ is_running' = FALSE
    /\ jobs' = {}
    /\ UNCHANGED <<sched_run, sched_job, response, started, pc, local_vars, init_outcome, calls,
                   returned, last_returned, last_analysis_result, cmd_in, cmd_out, assess_in,
                   assess_out, agg_vars, scan_vars, client_vars, flow_vars, loop_vars, fn_vars, callers>>

\* the threads change, nothing else of the scheduler does
ThreadStep(t, thread) ==
    /\ threads' = [threads EXCEPT ![t] = thread]
    /\ UNCHANGED status_call

\* the thread's loop ends: while self.is_running is tested when the
\* scheduler has been stopped
LoopEnds(t) ==
    /\ threads[t].at = "loop"
    /\ ~is_running
    /\ ThreadStep(t, [threads[t] EXCEPT !.at = "ended"])
    /\ UNCHANGED initial_runs
    /\ UNCHANGED <<run_vars, cmd_in, cmd_out, assess_in, assess_out, agg_vars, scan_vars,
                   client_vars, flow_vars, fn_vars, callers>>

\* one turn of the loop: while self.is_running, schedule.run_pending()
\* takes the list of the jobs that are due and runs the first of them,
\* whose wrapper calls asyncio.run(self.run_analysis()); which jobs are due
\* is a matter of time; with none due the thread sleeps and comes back
\* here unchanged
LoopTurn(t, r) ==
    /\ threads[t].at = "loop"
    /\ is_running
    /\ \E due \in (SUBSET jobs) \ {{}} :
        /\ started + Cardinality(due) <= MaxRuns
        /\ ThreadStep(t, Thread("in_job", Tail(DueList(due)), Head(DueList(due)), r))
        /\ initial_runs' = IF "initial" \in due THEN initial_runs + 1 ELSE initial_runs
    /\ Invoke(r)
    /\ UNCHANGED <<sched_vars, response, local_vars, init_outcome, calls, returned, last_returned,
                   last_analysis_result, cmd_in, cmd_out, assess_in, assess_out, agg_vars,
                   scan_vars, client_vars, flow_vars, fn_vars, callers>>

\* a job's wrapper ends: what the run returned or raised is dropped and the
\* initial job clears its tag
WrapperEnds(t) ==
    /\ threads[t].at = "in_job"
    /\ pc[threads[t].run] \in {"done", "raised"}
    /\ jobs' = IF threads[t].job = "initial" THEN jobs \ {"initial"} ELSE jobs
    /\ returned' = [returned EXCEPT ![threads[t].run] = None]

\* the loop of run_pending goes from a job that has ended to the next job
\* of the list it took
RunNextJob(t, r) ==
    /\ threads[t].pending # <<>>
    /\ WrapperEnds(t)
    /\ Invoke(r)
    /\ ThreadStep(t, Thread("in_job", Tail(threads[t].pending), Head(threads[t].pending), r))
    /\ UNCHANGED initial_runs
    /\ UNCHANGED <<is_running, sched_run, sched_job, response, local_vars, init_outcome, calls,
                   last_returned, last_analysis_result, cmd_in, cmd_out, assess_in, assess_out,
                   agg_vars, scan_vars, client_vars, flow_vars, fn_vars, callers>>

\* the record returned when the backend is not connected
NoConnectionResult(r) ==
    [success |-> FALSE, error |-> "Cannot proceed without MCP server connection",
     timestamp |-> r, connections |-> [mcp_connected |-> FALSE], report_dir |-> r]

\* run_analysis from _create_report_directory to the end of Step 6, taken
\* as one step: it raises, returns without a connection, ends in the outer
\* except branch, or has its report written and uploaded
RunSteps(r) ==
    /\ pc[r] = "mkdir"
    /\ \E end \in {"raised", "no_connection", "exception", "finish"} :
        CASE end = "raised" ->
                /\ pc' = [pc EXCEPT ![r] = "raised"]
                /\ returned' = [returned EXCEPT ![r] = [raised |-> "OSError"]]
                /\ UNCHANGED <<local_vars, last_returned, last_analysis_result>>
          [] end = "no_connection" ->
                /\ Return(r, NoConnectionResult(r))
                /\ UNCHANGED last_analysis_result
          [] end = "exception" ->
                /\ last_analysis_result' = ExceptionResult(r)
                /\ Return(r, ExceptionResult(r))
          [] end = "finish" ->
                /\ pc' = [pc EXCEPT ![r] = "finish"]
                /\ connections' = [connections EXCEPT ![r] = [mcp_connected |-> TRUE]]
                /\ analysis_data' = [analysis_data EXCEPT ![r] = Flagged(<<>>, {})]
                /\ report_path' = [report_path EXCEPT ![r] = "analysis_report.md"]
                /\ upload_success' = [upload_success EXCEPT ![r] = TRUE]
                /\ UNCHANGED <<nim_analysis, returned, last_returned, last_analysis_result>>
    /\ UNCHANGED <<sched_vars, response, started, init_outcome, calls, cmd_vars>>

\* the last job of run_pending's list ends: the thread sleeps and comes to
\* the next turn of the loop
JobEnds(t) ==
    /\ threads[t].pending = <<>>
    /\ WrapperEnds(t)
    /\ ThreadStep(t, Thread("loop", <<>>, "none", 0))
    /\ UNCHANGED initial_runs
    /\ UNCHANGED <<is_running, sched_run, sched_job, response, started, pc, local_vars,
                   init_outcome, calls, last_returned, last_analysis_result, cmd_in,
                   cmd_out, assess_in, assess_out, agg_vars, scan_vars, client_vars, flow_vars, fn_vars, callers>>

\* get_scheduler_status up to its await: next_run is taken from the jobs
StatusBegins ==
    /\ status_call = None
    /\ status_call' = [next_scheduled_run |-> IF jobs # {} THEN "next_run" ELSE "None"]
    /\ UNCHANGED <<run_vars, cmd_in, cmd_out, assess_in, assess_out, agg_vars, scan_vars,
                   client_vars, flow_vars, threads, initial_runs, fn_vars, callers>>

\* self.scheduler_thread.is_alive() if self.scheduler_thread else False
scheduler_thread_alive ==
    IF threads = <<>> THEN FALSE ELSE threads[Len(threads)].at # "ended"

\* the status dict built after test_connection has come back
StatusDict(next_scheduled_run, mcp_connected) ==
    [is_running |-> is_running,
     next_scheduled_run |-> next_scheduled_run,
     interval_hours |-> "ANALYSIS_INTERVAL_HOURS",
     active_jobs |-> Cardinality(jobs),
     mcp_server_script |-> "MCP_SERVER_SCRIPT_PATH",
     mcp_connected |-> mcp_connected,
     last_analysis |-> last_analysis_result,
     scheduler_thread_alive |-> scheduler_thread_alive]

\* the dicts the waiting call can return now, one for each reply the
\* backend can give to test_connection
StatusReplies ==
    IF status_call = None THEN {}
    ELSE {StatusDict(status_call.next_scheduled_run,
                     test_connection(InitializeResponse(outcome))) :
            outcome \in InitializeOutcomes}

\* test_connection has returned: the dict is built and returned
StatusEnds ==
    /\ status_call # None
    /\ status_call' = None
    /\ UNCHANGED <<run_vars, cmd_in, cmd_out, assess_in, assess_out, agg_vars, scan_vars,
                   client_vars, flow_vars, threads, initial_runs, fn_vars, callers>>

NextSched ==
    \/ start_scheduler
    \/ stop_scheduler
    \/ \E t \in DOMAIN threads : LoopEnds(t)
    \/ \E t \in DOMAIN threads : \E r \in Runs : LoopTurn(t, r)
    \/ \E t \in DOMAIN threads : \E r \in Runs : RunNextJob(t, r)
    \/ \E r \in Runs : RunSteps(r)
    \/ \E r \in Runs : Finish(r)
    \/ \E t \in DOMAIN threads : JobEnds(t)
    \/ StatusBegins
    \/ StatusEnds

SpecSched == InitSched /\ [][NextSched]_vars

\* ------------------------------------------- top-N truncation on its own
\* the names counted, numbered in alphabetical order
Names == 1..3

RECURSIVE NameLists(_)
\* the values of one field over the log lines, in the backend's order
NameLists(n) ==
    IF n = 0 THEN {<<>>}
    ELSE NameLists(n - 1)
         \cup {Append(l, v) : l \in {x \in NameLists(n - 1) : Len(x) = n - 1}, v \in Names}

RECURSIVE SortedByCount(_)
\* sorted(distribution.items(), key=lambda x: x[1], reverse=True), the dict
\* given as its items in the dict's order: the sort is stable
SortedByCount(items) ==
    IF items = <<>> THEN <<>>
    ELSE LET rest == SortedByCount(Tail(items))
             k == Cardinality({i \in DOMAIN rest : rest[i].count > Head(items).count})
         IN SubSeq(rest, 1, k) \o <<Head(items)>> \o SubSeq(rest, k + 1, Len(rest))

\* the items _format_distribution prints, in the order of its lines
_format_distribution(distribution, limit) ==
    LET sorted_items == SortedByCount(distribution)
    IN SubSeq(sorted_items, 1, IF Len(sorted_items) < limit THEN Len(sorted_items) ELSE limit)

\* list(country_distribution.keys())[:5], with the 5 as limit
TopKeys(distribution, limit) ==
    [i \in 1..(IF Len(distribution) < limit THEN Len(distribution) ELSE limit) |->
        distribution[i].name]

InitTop ==
    /\ Started
    /\ CmdIdle /\ AggIdle /\ ScanIdle /\ ClientNew /\ FlowIdle /\ LoopIdle
    /\ fn_in \in [values : NameLists(MaxItems), n : 0..MaxTop]
    /\ fn_out = None
    /\ callers = <<>>

\* the backend counts the values and truncates (most_common(10)); the
\* whole distribution, dict(counter.most_common()), goes to the prompt,
\* which truncates it again
Truncate ==
    /\ fn_in # None
    /\ fn_out = None
    /\ LET distribution == most_common(fn_in.values, Len(fn_in.values))
       IN fn_out' = [top |-> most_common(fn_in.values, fn_in.n),
                     formatted |-> _format_distribution(distribution, fn_in.n),
                     keys |-> TopKeys(distribution, fn_in.n)]
    /\ UNCHANGED <<run_vars, cmd_in, cmd_out, assess_in, assess_out, agg_vars, scan_vars,
                   client_vars, flow_vars, loop_vars, fn_in, callers>>

NextTop == Truncate

SpecTop == InitTop /\ [][NextTop]_vars

\* ------------------------------------------- MCPServer.handle_request
\* the tools handle_call_tool knows
ServerTools == {"get_traffic_analytics", "search_logs_by_country",
                "search_logs_by_location", "search_logs_by_ip"}

\* a dict with the key k when present holds
Optional(present, k, v) == IF present THEN [x \in {k} |-> v] ELSE EmptyDict

\* the requests json.loads gives the server: with or without a method, an
\* id and params, the params with or without a tool name
ServerRequests ==
    {Optional(m # "", "method", m) @@ Optional(id # 0, "id", id) @@ Optional(p # None, "params", p) :
        m \in {"", "initialize", "tools/list", "tools/call", "resources/list"},
        id \in 0..2,
        p \in {None, [arguments |-> "args"]}
              \cup {[name |-> n, arguments |-> "args"] :
                        n \in ServerTools \cup {"search_logs_by_countries"}}}

\* request[k] raises KeyError when the request has no k
KeyError(k) == [raised |-> "KeyError", key |-> k]

MCPServer_handle_initialize(request) ==
    IF "id" \notin DOMAIN request THEN KeyError("id")
    ELSE [jsonrpc |-> "2.0", id |-> request["id"], result |-> "capabilities"]

handle_list_tools(request) ==
    IF "id" \notin DOMAIN request THEN KeyError("id")
    ELSE [jsonrpc |-> "2.0", id |-> request["id"], result |-> [tools |-> ServerTools]]

\* the except branch of handle_call_tool
ToolError(request, message) ==
    IF "id" \notin DOMAIN request THEN KeyError("id")
    ELSE [jsonrpc |-> "2.0", id |-> request["id"],
          error |-> [code |-> -1, message |-> message]]

\* handle_call_tool on a request; tool_raises: the OracleLogsClient method
\* called raises
MCPServer_handle_call_tool(request, tool_raises) ==
    IF "params" \notin DOMAIN request THEN ToolError(request, "'params'")
    ELSE IF "name" \notin DOMAIN request["params"] THEN ToolError(request, "'name'")
    ELSE IF request["params"]["name"] \notin ServerTools
         THEN ToolError(request, "Unknown tool")
    ELSE IF tool_raises THEN ToolError(request, "str(e)")
    ELSE IF "id" \notin DOMAIN request THEN ToolError(request, "'id'")
    ELSE [jsonrpc |-> "2.0", id |-> request["id"],
          result |-> [content |-> <<[type |-> "text", text |-> json_dumps("result")]>>]]

IsMethod(request, m) == "method" \in DOMAIN request /\ request["method"] = m

\* an unknown method answered without the request's id
handle_request_no_id(request, tool_raises) ==
    IF IsMethod(request, "initialize") THEN MCPServer_handle_initialize(request)
    ELSE IF IsMethod(request, "tools/list") THEN handle_list_tools(request)
    ELSE IF IsMethod(request, "tools/call") THEN MCPServer_handle_call_tool(request, tool_raises)
    ELSE [jsonrpc |-> "2.0",
          error |-> [code |-> -32601, message |-> "Method not found"]]

handle_request(request, tool_raises) ==
    IF IsMethod(request, "initialize") THEN MCPServer_handle_initialize(request)
    ELSE IF IsMethod(request, "tools/list") THEN handle_list_tools(request)
    ELSE IF IsMethod(request, "tools/call") THEN MCPServer_handle_call_tool(request, tool_raises)
    ELSE [jsonrpc |-> "2.0", id |-> Get(request, "id", None),
          error |-> [code |-> -32601, message |-> "Method not found"]]

InitServer ==
    /\ Started
    /\ CmdIdle /\ AggIdle /\ ScanIdle /\ ClientNew /\ FlowIdle /\ LoopIdle
    /\ fn_in \in [request : ServerRequests, tool_raises : BOOLEAN]
    /\ fn_out = None
    /\ callers = <<>>

HandleRequest ==
    /\ fn_in # None
    /\ fn_out = None
    /\ fn_out' = handle_request(fn_in.request, fn_in.tool_raises)
    /\ UNCHANGED <<run_vars, cmd_in, cmd_out, assess_in, assess_out, agg_vars, scan_vars,
                   client_vars, flow_vars, loop_vars, fn_in, callers>>

NextServer == HandleRequest

SpecServer == InitServer /\ [][NextServer]_vars

\* ------------------------- one MCPClient called from two threads at once
\* the scheduler thread, whose job runs run_analysis in its own event loop,
\* and the server's event loop, which runs get_scheduler_status
CallerThreads == {"scheduler_thread", "event_loop"}

InitRace ==
    /\ Started
    /\ CmdIdle /\ AggIdle /\ ScanIdle /\ ClientNew /\ FlowIdle /\ LoopIdle
    /\ fn_in = None
    /\ fn_out = None
    /\ callers = [t \in CallerThreads |-> [at |-> "outside", value |-> 0]]

\* only the thread's position changes
CallerGoes(t, at, value) ==
    /\ callers' = [callers EXCEPT ![t] = [at |-> at, value |-> value]]
    /\ UNCHANGED <<run_vars, cmd_in, cmd_out, assess_in, assess_out, agg_vars, scan_vars,
                   flow_vars, loop_vars, fn_vars, client_call>>

\* a method of the client calls _call_server_simple
EnterCall(t) ==
    /\ callers[t].at = "outside"
    /\ Len(assigned_ids)
         + Cardinality({u \in CallerThreads : callers[u].at # "outside"}) < MaxRequests
    /\ CallerGoes(t, "load", 0)
    /\ UNCHANGED <<request_id, assigned_ids>>

\* self.request_id += 1, the read of the attribute
LoadRequestId(t) ==
    /\ callers[t].at = "load"
    /\ CallerGoes(t, "store", request_id)
    /\ UNCHANGED <<request_id, assigned_ids>>

\* self.request_id += 1, the write of the sum
StoreRequestId(t) ==
    /\ callers[t].at = "store"
    /\ request_id' = NextRequestId(callers[t].value)
    /\ CallerGoes(t, "assign", 0)
    /\ UNCHANGED assigned_ids

\* request["id"] = self.request_id; the request then goes out
AssignRequestId(t) ==
    /\ callers[t].at = "assign"
    /\ assigned_ids' = Append(assigned_ids, request_id)
    /\ CallerGoes(t, "outside", 0)
    /\ UNCHANGED request_id

NextRace ==
    \/ \E t \in CallerThreads : EnterCall(t)
    \/ \E t \in CallerThreads : LoadRequestId(t)
    \/ \E t \in CallerThreads : StoreRequestId(t)
    \/ \E t \in CallerThreads : AssignRequestId(t)

SpecRace == InitRace /\ [][NextRace]_vars

\* ================================================================ claims
\* a run_analysis invocation that is past _create_report_directory and has
\* not ended; one that was only called or queued does not count
InProgress(r) == pc[r] \in {"connect", "fetch", "assess", "assemble", "upload", "finish"}

\* RiskAssessment.method of an assessment dict
Method(a) ==
    CASE Get(a, "analysis_method", "") = "Automated Threat Detection" -> "RuleDerived"
      [] Get(a, "analysis_method", "") = "Fallback - Service Error" -> "Error"
      [] OTHER -> "ModelDerived"

IsBlock(c) == c.text = BlockText

IsVerification(c) == c.text \in {"iptables -L INPUT -n | grep DROP", "iptables -L INPUT -n"}

FlaggedSet(data) ==
    Range(ThreatIndicators(data).ssh_violators) \cup ThreatIndicators(data).multi_sensor_violators

\* a command list actionable for a snapshot: one block command per flagged
\* address and at least one verification command
Actionable(commands, data) ==
    /\ Len(commands) > 0
    /\ \A ip \in FlaggedSet(data) :
         Cardinality({i \in DOMAIN commands : commands[i] = BlockCommand(ip)}) = 1
    /\ Cardinality({i \in DOMAIN commands : IsBlock(commands[i])}) = Cardinality(FlaggedSet(data))
    /\ \E i \in DOMAIN commands : IsVerification(commands[i])

\* C1: single-flight, at most one run_analysis invocation is in progress at
\* any time, whatever triggers fire (POST /api/run-analysis,
\* run_manual_analysis, the initial job, the interval job).
C1_SingleFlight == Cardinality({r \in Runs : InProgress(r)}) <= 1

\* C2: once a run_analysis invocation has returned, last_analysis_result is
\* the record that the most recently returned invocation returned.
C2_LastResultIsLastReturned ==
    last_returned # 0 => last_analysis_result = returned[last_returned]

HandshakeFailed(r) == init_outcome[r] \notin {"none", "result"}

\* C3: a run whose initialize got no successful reply (process exit code,
\* no valid line, an error reply, a reply with neither result nor error,
\* timeout) has ended Failed with an error in its record, has no snapshot
\* and no assessment, and has made no fetch query, model call, report
\* assembly or upload.
C3_HandshakeFailureIsFatal ==
    \A r \in Runs :
        HandshakeFailed(r) =>
            /\ pc[r] = "done"
            /\ returned[r]["success"] = FALSE
            /\ "error" \in DOMAIN returned[r] /\ NonEmptyText(returned[r]["error"])
            /\ DOMAIN returned[r] \cap {"report_path", "data_summary", "analysis_method"} = {}
            /\ analysis_data[r] = None /\ nim_analysis[r] = None
            /\ calls[r] \cap {"get_analysis_prompt", "fetch", "model", "generate_markdown_report",
                              "fallback_json", "upload_report"} = {}

C3_Witness ==
    \E r \in Runs : init_outcome[r] = "exit_nonzero" /\ pc[r] = "done" /\ "initialize" \in calls[r]

\* C4: run_analysis never raises to its caller; every invocation that has
\* ended has returned a record whose status is Succeeded or Failed.
C4_NeverRaises ==
    \A r \in Runs :
        /\ pc[r] # "raised"
        /\ pc[r] = "done" => returned[r]["success"] \in BOOLEAN

RequiredFieldsNonEmpty(a) ==
    /\ NonEmptyText(a["executive_summary"])
    /\ NonEmptyText(a["risk_level"])
    /\ NonEmptyList(a["key_findings"])
    /\ NonEmptyList(a["recommendations"])

\* C5: every assessment Step 4 produces, whatever the model did, has
\* non-empty executive_summary, risk_level, key_findings, recommendations.
C5_RequiredFieldsNonEmpty ==
    assess_out # None =>
        RequiredFieldsNonEmpty(assess_out.first) /\ RequiredFieldsNonEmpty(assess_out.second)

\* C6: if the model call raises, the assessment is the rule-derived one:
\* method RuleDerived, risk level the one the threat indicators give
\* (Low when no address is flagged).
C6_ModelErrorFallsBackToRules ==
    (assess_out # None /\ assess_in.first.raises) =>
        /\ Method(assess_out.first) = "RuleDerived"
        /\ assess_out.first["risk_level"] = _generate_security_commands(assess_in.data)["risk_level"]
        /\ FlaggedSet(assess_in.data) = {} => assess_out.first["risk_level"] = "Low"

NoUsableJson(o) == ~o.raises /\ (~o.content.fenced \/ ~o.content.decodes)

\* C7: if the reply has no fenced JSON block, or the block does not decode,
\* the assessment is the rule-derived one, tagged RuleDerived, and not
\* presented as model-derived.
C7_UnparsedReplyFallsBackToRules ==
    (assess_out # None /\ NoUsableJson(assess_in.first)) =>
        /\ Method(assess_out.first) = "RuleDerived"
        /\ \A k \in RequiredKeys :
             assess_out.first[k] = _generate_security_commands(assess_in.data)[k]

\* C8: the assessment a run hands to the report generator has a non-empty
\* suggested_commands list with one block command per flagged address and
\* at least one verification command.
C8_AssembledCommandsActionable ==
    \A r \in Runs :
        pc[r] = "assemble" =>
            /\ "suggested_commands" \in DOMAIN nim_analysis[r]
            /\ Actionable(Get(nim_analysis[r], "suggested_commands", <<>>), analysis_data[r])

\* C9: _generate_security_commands emits exactly one block command per
\* distinct flagged address (none twice when an address is in both
\* indicators) and at least one verification command; with no flagged
\* address it emits a non-empty list without block commands.
C9_CommandsPerFlaggedAddress ==
    cmd_out # None =>
        LET commands == cmd_out["suggested_commands"]
        IN /\ Actionable(commands, cmd_in)
           /\ FlaggedSet(cmd_in) = {} =>
                /\ Len(commands) > 0
                /\ \A i \in DOMAIN commands : ~IsBlock(commands[i])

C9_Witness ==
    /\ cmd_out # None
    /\ Range(ThreatIndicators(cmd_in).ssh_violators) \cap ThreatIndicators(cmd_in).multi_sensor_violators # {}
    /\ Cardinality(FlaggedSet(cmd_in)) = 2
    /\ Len(cmd_out["suggested_commands"]) = 4

\* C10: the final suggested commands depend on the snapshot only; two runs
\* on the same snapshot that differ in the model's behaviour end with equal
\* command lists.
C10_CommandsIndependentOfModel ==
    assess_out # None =>
        /\ ("suggested_commands" \in DOMAIN assess_out.first)
             = ("suggested_commands" \in DOMAIN assess_out.second)
        /\ Get(assess_out.first, "suggested_commands", <<>>)
             = Get(assess_out.second, "suggested_commands", <<>>)

\* C11: if generate_markdown_report raises, the failure is caught, the
\* fallback artifact (snapshot and assessment as JSON) becomes the report,
\* and the run ends Succeeded.
C11_AssembleFailureSubstituted ==
    \A r \in Runs :
        ("fallback_json" \in calls[r] /\ pc[r] = "done") =>
            /\ returned[r]["success"] = TRUE
            /\ returned[r]["report_path"] = "fallback_analysis.json"

\* the upload was attempted and did not succeed: upload_report returned
\* False, or reading or sending the report raised
UploadFailed(r) ==
    /\ "upload_report" \in calls[r]
    /\ pc[r] = "done"
    /\ Get(returned[r], "uploaded_to_oci", FALSE) = FALSE

\* C12: a run that reached the upload ends Succeeded whatever the upload
\* did; a failed upload shows only in uploaded_to_oci.
C12_UploadFailureIgnored ==
    \A r \in Runs :
        "upload_report" \in calls[r] =>
            /\ pc[r] \in {"finish", "done"}
            /\ pc[r] = "done" =>
                 /\ returned[r]["success"] = TRUE
                 /\ last_returned = r => last_analysis_result = returned[r]

C12_Witness ==
    \E r \in Runs : UploadFailed(r) /\ returned[r]["success"] = TRUE

\* the analytics dict a snapshot holds for a dimension
DimensionData(snapshot, d) ==
    snapshot["current_period"][IF d = "ip" THEN "ip_analytics" ELSE
        CASE d = "country" -> "country_analytics" [] d = "city" -> "city_analytics"
          [] d = "sensor" -> "sensor_analytics" [] d = "isp" -> "isp_analytics"]

DistributionKey(d) ==
    CASE d = "country" -> "country_distribution" [] d = "city" -> "city_distribution"
      [] d = "sensor" -> "sensor_distribution" [] d = "isp" -> "isp_distribution"
      [] d = "ip" -> "ip_distribution"

\* analytics.get("<dimension>_distribution", {}) as the readers of the
\* snapshot take it
Distribution(snapshot, d) == Get(DimensionData(snapshot, d), DistributionKey(d), EmptyDict)

\* what the backend computes for a dimension from its log lines
BackendData(oracle_logs, d) ==
    IF d = "ip"
    THEN _analyze_ip_addresses(OracleLogsClient_search_logs_by_ip(oracle_logs)["list"])
    ELSE OracleLogsClient_get_traffic_analytics(oracle_logs, d)

\* C13: when exactly one dimension query fails, the snapshot is built all
\* the same, every other dimension holds the data the backend computed,
\* and the failed dimension's distribution is empty.
C13_OneFailedDimensionIsAbsorbed ==
    \A q \in Dimensions :
        (agg_out # None /\ agg_in.failed = {q}) =>
            /\ DOMAIN agg_out = {"current_period", "countries_analysis",
                                 "summary_statistics", "target_countries"}
            /\ \A d \in Dimensions \ {q} :
                 DimensionData(agg_out, d) = BackendData(agg_in.oracle_logs, d)
            /\ Distribution(agg_out, q) = EmptyDict

C13_Witness ==
    /\ agg_out # None
    /\ agg_in.failed = {"sensor"}
    /\ Len(agg_in.oracle_logs) = 2
    /\ Distribution(agg_out, "country") # EmptyDict
    /\ Distribution(agg_out, "ip") # EmptyDict
    /\ "error" \in DOMAIN DimensionData(agg_out, "sensor")

\* no query of the snapshot returned data
NoDataReturned(snapshot) ==
    \A d \in Dimensions : "error" \in DOMAIN DimensionData(snapshot, d)

\* C14: a run whose fetch queries all failed ends Failed: it makes no model
\* call, assembles no report and uploads nothing.
C14_TotalFetchFailureIsFatal ==
    \A r \in Runs :
        (analysis_data[r] # None /\ NoDataReturned(analysis_data[r])) =>
            calls[r] \cap {"model", "generate_markdown_report", "fallback_json",
                           "upload_report"} = {}

RECURSIVE SumCounts(_)
\* sum(distribution.values())
SumCounts(distribution) ==
    IF DOMAIN distribution = {} THEN 0
    ELSE LET k == CHOOSE x \in DOMAIN distribution : TRUE
         IN distribution[k] + SumCounts([x \in DOMAIN distribution \ {k} |-> distribution[x]])

RECURSIVE SumItems(_)
\* the same for a distribution held as its item list
SumItems(items) == IF items = <<>> THEN 0 ELSE Head(items).count + SumItems(Tail(items))

\* C15: in a snapshot whose queries all succeeded over the same log lines,
\* the counts of the country, sensor, ISP and address distributions each
\* add up to the snapshot's total request count.
C15_DistributionsSumToTotal ==
    (agg_out # None /\ agg_in.failed = {}) =>
        LET total == agg_out["summary_statistics"]["total_requests"]
        IN /\ \A d \in {"country", "sensor", "isp"} : SumCounts(Distribution(agg_out, d)) = total
           /\ SumItems(Distribution(agg_out, "ip")) = total

\* the rule of the threat indicators: the address was seen on the
\* restricted sensor from outside the allowed city, or on more than one
\* sensor
RuleFlagged(oracle_logs) ==
    {ip \in Addrs :
        \/ \E i \in DOMAIN oracle_logs :
              /\ oracle_logs[i]["IP"] = ip
              /\ oracle_logs[i]["Sensor"] = "ssh"
              /\ oracle_logs[i]["City"] # "Budapest"
        \/ Cardinality({oracle_logs[i]["Sensor"] :
                          i \in {j \in DOMAIN oracle_logs : oracle_logs[j]["IP"] = ip}}) > 1}

\* C16: the addresses the snapshot flags (ssh_outside_budapest and
\* multiple_sensors, as _generate_security_commands reads them) are exactly
\* the addresses the rule flags in the log lines of the window.
C16_ThreatIndicatorsFollowRule ==
    (agg_out # None /\ agg_in.failed = {}) =>
        FlaggedSet(agg_out) = RuleFlagged(agg_in.oracle_logs)

IsNoise(line) == line.obj = None

\* a line holding a response object: the jsonrpc tag and a result or an error
IsResponseLine(line) ==
    /\ line.obj # None
    /\ "jsonrpc" \in DOMAIN line.obj
    /\ DOMAIN line.obj \cap {"result", "error"} # {}

ResponseLines(stdout) == {i \in DOMAIN stdout : IsResponseLine(stdout[i])}

\* C18: when the process exits normally and its output holds one response
\* line among any number of non-JSON lines, before or after it,
\* _call_server_simple returns the object of that line.
C18_NoiseIsSkipped ==
    (scan_out # None /\ ~scan_in.raised) =>
        \A i \in DOMAIN scan_in.stdout :
            (/\ scan_in.returncode = 0
             /\ IsResponseLine(scan_in.stdout[i])
             /\ \A j \in DOMAIN scan_in.stdout \ {i} : IsNoise(scan_in.stdout[j]))
            => scan_out = scan_in.stdout[i].obj

C18_Witness ==
    /\ scan_out # None
    /\ ~scan_in.raised
    /\ scan_in.returncode = 0
    /\ Len(scan_in.stdout) = 3
    /\ IsNoise(scan_in.stdout[1]) /\ scan_in.stdout[1].starts_brace /\ scan_in.stdout[1].has_jsonrpc
    /\ IsResponseLine(scan_in.stdout[2])
    /\ IsNoise(scan_in.stdout[3])
    /\ scan_out = scan_in.stdout[2].obj

\* C19: when the output holds response lines, _call_server_simple returns
\* the object of the last line that parses as an object with the jsonrpc
\* tag and a result or an error.
C19_LastResponseLineWins ==
    (scan_out # None /\ ~scan_in.raised /\ scan_in.returncode = 0
        /\ ResponseLines(scan_in.stdout) # {}) =>
        LET last == CHOOSE i \in ResponseLines(scan_in.stdout) :
                        \A j \in ResponseLines(scan_in.stdout) : j <= i
        IN scan_out = scan_in.stdout[last].obj

\* a reply with neither result nor error
Neither(resp) == DOMAIN resp \cap {"result", "error"} = {}

\* the method reported a failure to its caller
Rejected(call) ==
    CASE call.method = "test_connection" -> call.value = FALSE
      [] call.method = "list_tools" -> call.value = <<>>
      [] OTHER -> "error" \in DOMAIN call.value

\* C20: a method that received a reply with neither result nor error, to
\* its initialize or to its tools request, reports a failure: the reply is
\* not taken as a success by test_connection, list_tools or a domain call.
C20_NeitherIsRejected ==
    client_call # None =>
        ((\E i \in DOMAIN client_call.responses : Neither(client_call.responses[i]))
            => Rejected(client_call))

\* a well-formed response object: the jsonrpc tag and a result or an error
WellFormed(stdout) == \E i \in DOMAIN stdout : IsResponseLine(stdout[i])

\* the failure a protocol call is to report for what the process did, "none"
\* when the output holds a well-formed response
ExpectedFailure(proc) ==
    CASE proc.raised /\ proc.exception = "TimeoutExpired" -> "TimeoutError"
      [] proc.raised /\ proc.exception = "OSError" -> "TransportError"
      [] ~proc.raised /\ proc.returncode # 0 -> "TransportError"
      [] ~proc.raised /\ proc.returncode = 0 /\ ~WellFormed(proc.stdout) -> "ProtocolError"
      [] OTHER -> "none"

\* the failure a caller can read out of the dict returned: the dict has no
\* kind field, the message under "error" is all that tells the branches of
\* _call_server_simple apart; a dict with the jsonrpc tag is a response
ReportedFailure(resp) ==
    CASE "jsonrpc" \in DOMAIN resp -> "none"
      [] resp["error"] = "Server error" -> "TransportError"
      [] resp["error"] = StrOfException("OSError") -> "TransportError"
      [] resp["error"] = StrOfException("TimeoutExpired") -> "TimeoutError"
      [] resp["error"] = "No valid JSON response" -> "ProtocolError"

\* C21: a protocol call reports exactly one of TransportError (process not
\* started, exit code not zero), TimeoutError (no response within the
\* bound) and ProtocolError (no output line is a well-formed response), the
\* one that fits what the process did.
C21_FailureKindsDistinguished ==
    scan_out # None => ReportedFailure(scan_out) = ExpectedFailure(scan_in)

DomainCalls == {"get_traffic_analytics", "get_traffic_analytics_by_group", "search_logs_by_ip",
                "search_logs_by_country", "search_logs_by_countries"}

WaitingOnHung == Get(in_flight, "behaviour", "") = "hangs"

\* the call came back with the failure of a timeout: the error dict of
\* _call_server_simple, or the fallback assessment of Step 4
TimedOut ==
    /\ in_flight = None
    /\ \/ last_response = [error |-> StrOfException("TimeoutExpired")]
       \/ Method(last_response) = "Error"

\* C22: a protocol call and a model call to a party that never answers
\* each come back with a failure, and every run that has begun its calls
\* ends.
C22_BlockingCallsAreBounded ==
    /\ WaitingOnHung ~> TimedOut
    /\ (call_index > 0) ~> (run_status # None)

C22_Witness ==
    /\ run_status = Ended("Succeeded")
    /\ blocked_for = 14 * ProtocolTimeout + ModelTimeout
    /\ Method(last_response) = "Error"

StageOrder == <<"Handshake", "Fetch", "Assess", "Assemble", "Upload">>

StageIndex(stage) == CHOOSE i \in DOMAIN StageOrder : StageOrder[i] = stage

IsPrefix(s, t) == Len(s) <= Len(t) /\ \A i \in DOMAIN s : s[i] = t[i]

\* a query of the Fetch stage: a protocol request sent by the aggregator
IsFetchQuery(e) == e.stage = "Fetch" /\ e.request.method \in {"initialize", "tools/call"}

\* C24: the stages of a run begin in the order Handshake, Fetch, Assess,
\* Assemble, Upload, each after the one before it has ended; a run ends
\* Succeeded only after all five; and before every fetch query the run has
\* sent an initialize and then a tools/list in its Handshake stage.
C24_StagesInOrder ==
    /\ IsPrefix(stages, StageOrder)
    /\ \A i, j \in DOMAIN trace :
         i < j => StageIndex(trace[i].stage) <= StageIndex(trace[j].stage)
    /\ in_flight # None => trace[Len(trace)].stage = stages[Len(stages)]
    /\ run_status = Ended("Succeeded") => stages = StageOrder
    /\ \A i \in DOMAIN trace :
         IsFetchQuery(trace[i]) =>
            \E j, k \in 1..(i - 1) :
                /\ j < k
                /\ trace[j].stage = "Handshake" /\ trace[j].request = InitializeRequest
                /\ trace[k].stage = "Handshake" /\ trace[k].request = ToolsListRequest

\* ---------------------------------------------------------------------- C25
\* C25: once stop_scheduler has returned the scheduler triggers no further
\* run, also when several jobs were due in the same tick, and the stop
\* leaves a run in flight where it is.  Every run of this specification
\* is triggered by a scheduler thread, so a run that starts while
\* is_running is off is a run triggered after a stop.
C25_NoRunAfterStop ==
    [][/\ (started' # started => is_running)
       /\ (is_running /\ ~is_running' => pc' = pc)]_vars

\* ---------------------------------------------------------------------- C26
\* the keys of the record of a run that succeeded and of one that failed
SuccessKeys ==
    {"success", "report_path", "report_dir", "uploaded_to_oci", "timestamp",
     "duration_seconds", "connections", "data_summary", "analysis_method"}

FailureKeys == {"success", "error", "timestamp", "duration_seconds", "report_dir"}

\* a record with all the keys of its kind, of a run that has returned
CompleteRecord(rec) ==
    /\ \/ DOMAIN rec = SuccessKeys /\ rec.success /\ rec.connections # None
       \/ DOMAIN rec = FailureKeys /\ ~rec.success
    /\ rec.timestamp \in Runs
    /\ pc[rec.timestamp] = "done"

\* some run is between its invocation and its end
RunInProgress == \E r \in Runs : pc[r] \in {"mkdir", "finish"}

\* C26: the last-run record is written atomically: whatever a status query
\* returns, also while runs are in progress, its last_analysis is None or
\* the complete record of a run that has returned, never a partly filled
\* one.
C26_LastRunRecordIsAtomic ==
    \A d \in StatusReplies :
        d.last_analysis = None \/ CompleteRecord(d.last_analysis)

\* a status query is about to return an earlier run's record while the
\* next run, which will replace it, is about to store its own
C26_Witness ==
    /\ RunInProgress
    /\ \E d \in StatusReplies :
        /\ d.last_analysis # None
        /\ \E r \in Runs : pc[r] = "finish" /\ r > d.last_analysis.timestamp

\* ---------------------------------------------------------------------- C27
\* C27: the activity flag a status query returns is true exactly while a
\* run_analysis invocation is in progress.
C27_FlagIsRunActivity ==
    \A d \in StatusReplies : d.is_running = RunInProgress

\* ---------------------------------------------------------------------- C28
\* the run that returned last returned a record of failure
LastRunFailed ==
    /\ last_returned # 0
    /\ "success" \in DOMAIN returned[last_returned]
    /\ ~returned[last_returned].success

\* the reply carries an error string, of its own or in its last-run record
HasErrorString(d) ==
    \/ "error" \in DOMAIN d
    \/ "error" \in DOMAIN d.last_analysis

\* C28: in every state the status query returns a dict (it does not
\* raise) that has a human-readable message and, when the last run failed,
\* an error string.
C28_StatusHasMessageAndError ==
    \A d \in StatusReplies :
        /\ "message" \in DOMAIN d
        /\ LastRunFailed => HasErrorString(d)

\* ---------------------------------------------------------------------- C29
\* the assessments Step 4 has produced
Assessments ==
    IF assess_out = None THEN {} ELSE {assess_out.first, assess_out.second}

\* C29: every assessment whose method is Error has confidence Low and risk
\* level Unknown.
C29_ErrorMeansLowAndUnknown ==
    \A a \in Assessments :
        Method(a) = "Error" => a.confidence = "Low" /\ a.risk_level = "Unknown"

\* the model call raised and Step 4 built the service-error fallback, next
\* to an assessment of the same snapshot that took the model's confidence
C29_Witness ==
    /\ assess_out # None
    /\ assess_in.first.raises
    /\ Method(assess_out.first) = "Error"
    /\ Method(assess_out.second) = "ModelDerived"
    /\ assess_out.second.confidence = "High"

\* ---------------------------------------------------------------------- C30
\* the merge as stated, for one model outcome and the assessment Step 4
\* made of it: a required field the reply's object lacks has the value of
\* the rule-derived assessment, one it supplies has the reply's value
MergedAsStated(outcome, a, automated) ==
    ~outcome.raises =>
        \A k \in RequiredKeys :
            a[k] = IF k \in DOMAIN _extract_json_from_markdown(outcome.content)
                   THEN _extract_json_from_markdown(outcome.content)[k]
                   ELSE automated[k]

\* C30: a required field (executive_summary, risk_level, key_findings,
\* recommendations) missing from the parsed model reply is, in the final
\* assessment, the rule-derived assessment's value for it, and the fields
\* the model supplied are kept.
C30_MissingFieldsBackfilled ==
    assess_out # None =>
        /\ MergedAsStated(assess_in.first, assess_out.first,
                          _generate_security_commands(assess_in.data))
        /\ MergedAsStated(assess_in.second, assess_out.second,
                          _generate_security_commands(assess_in.data))

\* ---------------------------------------------------------------------- C31
\* the result records of the runs that have returned
TerminalRecords == {returned[r] : r \in {x \in Runs : pc[x] = "done"}}

\* C31: the result record of every run that has returned, whether it
\* succeeded or failed, a handshake failure included, contains the run's
\* wall-clock duration.
C31_EveryRecordHasDuration ==
    \A rec \in TerminalRecords : "duration_seconds" \in DOMAIN rec

\* ---------------------------------------------------------------------- C32
\* v comes before w in a top-N of the values l: its count is higher, or
\* the counts are equal and v was observed first
Before(l, v, w) ==
    \/ Count(l, v) > Count(l, w)
    \/ Count(l, v) = Count(l, w) /\ FirstIndex(l, v) < FirstIndex(l, w)

\* top is the top-n of the values l
IsTopN(top, l, n) ==
    /\ Len(top) = (IF Cardinality(Range(l)) < n THEN Cardinality(Range(l)) ELSE n)
    /\ \A i \in DOMAIN top : top[i].name \in Range(l) /\ top[i].count = Count(l, top[i].name)
    /\ \A i, j \in DOMAIN top : i < j => Before(l, top[i].name, top[j].name)
    /\ \A i \in DOMAIN top : \A w \in Range(l) \ {top[k].name : k \in DOMAIN top} :
            Before(l, top[i].name, w)

\* C32: top-N truncation keeps the N entries of highest count in descending
\* count order, entries of equal count in the order of their first
\* observation in the input, not in alphabetical order.
C32_TopNIsStable ==
    fn_out # None =>
        /\ IsTopN(fn_out.top, fn_in.values, fn_in.n)
        /\ IsTopN(fn_out.formatted, fn_in.values, fn_in.n)
        /\ fn_out.keys = [i \in DOMAIN fn_out.top |-> fn_out.top[i].name]

\* three names, the two of equal count observed against the alphabet, and
\* a truncation that drops the one observed last
C32_Witness ==
    /\ fn_out # None
    /\ fn_in.values = <<3, 1, 2, 3>>
    /\ fn_in.n = 2
    /\ fn_out.top = <<[name |-> 3, count |-> 2], [name |-> 1, count |-> 1]>>

\* ---------------------------------------------------------------------- C33
UnknownMethod(request) ==
    ~IsMethod(request, "initialize") /\ ~IsMethod(request, "tools/list")
    /\ ~IsMethod(request, "tools/call")

UnknownTool(request) ==
    /\ IsMethod(request, "tools/call")
    /\ "params" \in DOMAIN request
    /\ "name" \in DOMAIN request["params"]
    /\ request["params"]["name"] \notin ServerTools

\* C33: for every request carrying an id, handle_request returns a
\* response with the protocol-version tag, the request's id and exactly one
\* of result and error; an unknown method and an unknown tool name give an
\* error response.
C33_ResponseShape ==
    (fn_out # None /\ "id" \in DOMAIN fn_in.request) =>
        /\ DOMAIN fn_out \in {{"jsonrpc", "id", "result"}, {"jsonrpc", "id", "error"}}
        /\ fn_out["jsonrpc"] = "2.0"
        /\ fn_out["id"] = fn_in.request["id"]
        /\ (UnknownMethod(fn_in.request) \/ UnknownTool(fn_in.request))
                => "error" \in DOMAIN fn_out

\* a tools/call request with id 2 for a tool the server does not have
C33_Witness ==
    /\ fn_out # None
    /\ UnknownTool(fn_in.request)
    /\ "id" \in DOMAIN fn_in.request
    /\ fn_in.request["id"] = 2
    /\ fn_out["id"] = 2
    /\ fn_out["error"]["message"] = "Unknown tool"

\* ---------------------------------------------------------------------- C34
\* C34: when the scheduler thread's run and a status query on the event
\* loop use the client at the same time, no two outbound requests carry
\* the same id, under every interleaving of the two threads.
C34_IdsUniqueUnderConcurrency ==
    \A i, j \in DOMAIN assigned_ids : i # j => assigned_ids[i] # assigned_ids[j]

\* ---------------------------------------------------------------------- C35
\* the scheduler threads that are executing a scheduled job
ExecutingThreads == {t \in DOMAIN threads : threads[t].at = "in_job"}

\* C35: after any sequence of start_scheduler and stop_scheduler calls at
\* most one scheduler loop thread is alive and executing scheduled jobs: no
\* two loop threads are in a job at the same time.
C35_AtMostOneLoopThread == Cardinality(ExecutingThreads) <= 1

\* C36: for each start of the scheduler the initial delayed analysis runs
\* exactly once: the job tagged 'initial' is begun at most once after a
\* start, and while the scheduler runs it is gone from the jobs only after
\* it has been begun.
C36_InitialRunsExactlyOnce ==
    /\ initial_runs <= 1
    /\ (is_running /\ "initial" \notin jobs) => initial_runs = 1

\* the domain call that has returned got an error for its initialize
InitializeFailed ==
    /\ client_call # None
    /\ client_call.method \in DomainCalls
    /\ "error" \in DOMAIN client_call.responses[1]

\* C37: a domain call whose initialize request returned an error sends no
\* tools/call request and returns an error, whichever of the five domain
\* methods it is.
C37_InitializeErrorEndsDomainCall ==
    InitializeFailed =>
        /\ \A i \in DOMAIN client_call.requests : client_call.requests[i].method # "tools/call"
        /\ "error" \in DOMAIN client_call.value

\* ------------------------------------------------------- the run listing
\* the files of a run's report directory that the listing and Step 5 name
ReportFileNames == {"analysis_report.md", "raw_data.json", "fallback_analysis.json"}

\* report_path of run r: the local while the run goes on, the field of the
\* record once it has returned
ReportPathOf(r) ==
    IF pc[r] = "done" THEN Get(returned[r], "report_path", "unset") ELSE report_path[r]

\* what the directory of run r can hold. generate_markdown_report writes
\* analysis_report.md and then raw_data.json and can raise before, between
\* and after the two; the fallback of Step 5 writes fallback_analysis.json
DirectoryFiles(r) ==
    IF "generate_markdown_report" \notin calls[r] THEN {{}}
    ELSE IF ReportPathOf(r) = "analysis_report.md"
         THEN {{"analysis_report.md", "raw_data.json"}}
    ELSE {written \cup fallback :
            written \in {{}, {"analysis_report.md"}, {"analysis_report.md", "raw_data.json"}},
            fallback \in IF ReportPathOf(r) = "fallback_analysis.json"
                         THEN {{"fallback_analysis.json"}}
                         ELSE {{}, {"fallback_analysis.json"}}}

\* the runs whose directory _create_report_directory has made
RunDirectories == {r \in Runs : pc[r] \notin {"idle", "mkdir", "raised"}}

\* the states ./reports can be in: the files of each run directory
ReportsDirs ==
    {reports \in [RunDirectories -> SUBSET ReportFileNames] :
        \A r \in RunDirectories : reports[r] \in DirectoryFiles(r)}

\* the entry of one directory sybylla-<timestamp>
RunEntry(item, files) ==
    [id |-> item, hostname |-> "sybylla", timestamp |-> item,
     status |-> IF "analysis_report.md" \in files THEN "completed" ELSE "failed",
     report_exists |-> "analysis_report.md" \in files,
     file_size |-> IF "analysis_report.md" \in files THEN "st_size" ELSE "0",
     directory |-> item]

\* get_analysis_runs: one entry for each directory, newest first
get_analysis_runs(reports) ==
    LET items == SortedList(DOMAIN reports)
        n == Len(items)
    IN [i \in 1..n |-> RunEntry(items[n + 1 - i], reports[items[n + 1 - i]])]

\* C38: the run listing agrees with what run_analysis returned: every run
\* that returned success is listed with status 'completed', a run that
\* succeeded through the fallback JSON included, and every returned run
\* listed as 'failed' returned failure.
C38_ListingAgreesWithVerdict ==
    \A reports \in ReportsDirs :
        LET runs == get_analysis_runs(reports)
        IN /\ \A r \in Runs :
                (pc[r] = "done" /\ returned[r]["success"]) =>
                    \E i \in DOMAIN runs : runs[i].id = r /\ runs[i].status = "completed"
           /\ \A i \in DOMAIN runs :
                (runs[i].status = "failed" /\ pc[runs[i].id] = "done") =>
                    ~returned[runs[i].id]["success"]

====
